---- MODULE Spec2Model ----
(***************************************************************************)
(* Rule dispatch of the bot (src/sopel/bot.py): dispatch, call_rule, the   *)
(* legacy call, the per-rule rate-limit ledger, the blocklists and the     *)
(* threads dispatch spawns.                                                *)
(*                                                                         *)
(* Spec      dispatch calls, the threads they spawn, time.                 *)
(* SpecLive  Spec with the fairness of the dispatching thread.             *)
(* SpecCall  call_rule, Rule.execute and the legacy call, one call at a    *)
(*           time, over every rule kind, trigger and channel section.      *)
(***************************************************************************)
EXTENDS Integers, Sequences, FiniteSets, TLC

VARIABLES
    now,            \* time.time(), in seconds
    rules,          \* the registered rules: rule id -> rule
    config,         \* channel name -> its configuration section (when it has one)
    metrics,        \* the ledger of each rule: last use per nick, channel, global
    times,          \* Sopel._times of the legacy call: key -> (func -> last use)
    pc,             \* where the dispatching thread is
    pretrigger,     \* the event of the dispatch call in progress
    triggered,      \* its list of (rule, match) pairs
    idx,            \* position of the for loop in triggered
    blocked_rules,  \* list_of_blocked_rules of the dispatch call
    offers,         \* what the loop did with each entry so far
    local_running,  \* running_triggers, local to the dispatch call
    execs,          \* every call_rule invocation so far, threaded or inline
    running,        \* Sopel._running_triggers
    ndispatch,      \* dispatch calls begun
    escaped,        \* the exception that left dispatch, or "none"
    reported,       \* Spec: calls of Sopel.error so far
    uses,           \* Spec: rule -> nick -> when each handler run that returned a value began
    last,           \* SpecCall: the last call, its inputs and what it decided
    channels,       \* Sopel.channels: channel the bot is in -> its join time
    registered,     \* the rules in the rules manager, in registration order
    plugins,        \* Sopel._plugins: the names of the plugins added
    pending,        \* add_plugin in progress: the callables yet to register
    bound,          \* context -> the trigger and the rule the bot is bound to
    sent            \* what the bot sent to the backend, in order

vars == <<now, rules, config, metrics, times, pc, pretrigger, triggered, idx,
          blocked_rules, offers, local_running, execs, running, ndispatch,
          escaped, reported, uses, last, channels, registered, plugins,
          pending, bound, sent>>

\* The registry and the channels; the contexts and the backend.
RegistryVars == <<channels, registered, plugins, pending>>
ContextVars == <<bound, sent>>

----------------------------------------------------------------------------
(* Bounds *)

MaxTime == 2
MaxExecs == 3
MaxCallTime == 1
MaxSent == 1

----------------------------------------------------------------------------
(* Names, identity, text *)

BotNick == "TestBot"
Channels == {"#chan", "#quiet"}
Admins == {"Adm"}

\* Trigger.admin: the nick is one of the configured admins or the owner.
TriggerAdmin(nick) == nick \in Admins

\* Identifier.is_nick(): a name that does not start with a channel prefix.
IsNick(name) == name \notin Channels

\* call_rule's is_channel: there is a sender and it is not a nick.
IsChannel(sender) == sender # "None" /\ ~IsNick(sender)

\* Trigger.is_privmsg: the sender is a nick.
IsPrivmsg(sender) == IsNick(sender)

\* str.lower() / re.IGNORECASE on the names the model uses.
Lower(s) ==
    CASE s = "Bad" -> "bad"
      [] s = "BAD" -> "bad"
      [] s = "Foo" -> "foo"
      [] s = "Adm" -> "adm"
      [] s = "EVIL.HOST" -> "evil.host"
      [] s = "A.SPAM.NET" -> "a.spam.net"
      [] OTHER -> s

\* str.strip() on the patterns the model uses.
Strip(s) ==
    CASE s = " " -> ""
      [] s = " bad " -> "bad"
      [] OTHER -> s

----------------------------------------------------------------------------
(* Blocklists: settings.core.nick_blocks and host_blocks *)

nick_blocks == <<" ", "BAD">>
host_blocks == <<"evil.host", ".*[.]spam[.]net">>

\* The lower-case names of the model that the regular expression
\* .*[.]spam[.]net$ matches from their start.
SpamHosts == {"a.spam.net", ".spam.net"}

\* re.match(mask + '$', name, re.IGNORECASE): for a mask without
\* metacharacters the names equal to it but for case.
ReMatchIgnoreCase(mask, name) ==
    IF mask = ".*[.]spam[.]net" THEN Lower(name) \in SpamHosts
    ELSE Lower(mask) = Lower(name)

\* Mutant: the host is compared with the mask as it is written.
host_blocked_exact(host) ==
    \E i \in 1..Len(host_blocks) :
        LET bad_mask == Strip(host_blocks[i])
        IN  bad_mask # "" /\ bad_mask = host

host_blocked(host) ==
    \E i \in 1..Len(host_blocks) :
        LET bad_mask == Strip(host_blocks[i])
        IN  /\ bad_mask # ""
            /\ (ReMatchIgnoreCase(bad_mask, host) \/ bad_mask = host)

\* make_identifier(bad_nick) == nick compares under the IRC casemapping.
nick_blocked(nick) ==
    \E i \in 1..Len(nick_blocks) :
        LET bad_nick == Strip(nick_blocks[i])
        IN  /\ bad_nick # ""
            /\ (ReMatchIgnoreCase(bad_nick, nick) \/ Lower(bad_nick) = Lower(nick))

\* (nick_blocked, host_blocked); (None, None), both falsy, when no list is set.
is_pretrigger_blocked(pre) ==
    IF Len(nick_blocks) = 0 /\ Len(host_blocks) = 0
    THEN <<FALSE, FALSE>>
    ELSE <<nick_blocked(pre.nick), host_blocked(pre.host)>>

----------------------------------------------------------------------------
(* Rules and the registry *)

\* A rule: its plugin, label, flags, the three rate-limit windows (seconds)
\* and its patterns, each pattern given by the set of texts it matches.
Rule(plugin, label, threaded, unblockable, user_rate, channel_rate, global_rate, patterns) ==
    [plugin |-> plugin, label |-> label, threaded |-> threaded,
     unblockable |-> unblockable, user_rate |-> user_rate,
     channel_rate |-> channel_rate, global_rate |-> global_rate,
     patterns |-> patterns]

\* The rules registered for Spec, in registration order.
RegistryOrder == <<"log", "greet", "track">>

Registry ==
    [r \in {"log", "greet", "track"} |->
        CASE r = "log" ->
                Rule("testplugin", "log", FALSE, FALSE, 0, 0, 0, <<{"a", "c"}>>)
          [] r = "greet" ->
                Rule("testplugin", "greet", TRUE, FALSE, 2, 0, 0, <<{"a"}, {"a", "b"}>>)
          [] r = "track" ->
                Rule("coretasks", "track", FALSE, TRUE, 0, 0, 0, <<{"b", "c"}>>)]

\* Rule.match: one result per pattern that matches the text, in declaration order.
RuleMatch(r, text) ==
    SelectSeq([k \in 1..Len(rules[r].patterns) |-> <<r, k>>],
              LAMBDA m : text \in rules[r].patterns[m[2]])

RECURSIVE TriggeredFrom(_, _)
TriggeredFrom(order, text) ==
    IF order = <<>> THEN <<>>
    ELSE RuleMatch(Head(order), text) \o TriggeredFrom(Tail(order), text)

\* What a rule is declared with beyond Rule(...), and the defaults: generic
\* rule, medium priority, no output prefix, a handler that sends nothing.
Category(rule) == IF "category" \in DOMAIN rule THEN rule.category ELSE "rule"
Priority(rule) == IF "priority" \in DOMAIN rule THEN rule.priority ELSE "medium"
OutputPrefix(rule) ==
    IF "output_prefix" \in DOMAIN rule THEN rule.output_prefix ELSE ""
Replies(rule) == IF "replies" \in DOMAIN rule THEN rule.replies ELSE "None"

\* The collections of the manager, in the order it goes through them, and
\* the priorities, first to last.
Categories ==
    <<"rule", "command", "nick_command", "action_command", "url_callback">>
Priorities == <<"high", "medium", "low">>

\* The registered rules of one collection, in registration order.
Collection(order, category) ==
    SelectSeq(order, LAMBDA r : Category(rules[r]) = category)

\* Mutant: the rules are gone through in registration order, whatever their
\* collection.
ChainRegistrationOrder(order, cats, text) == TriggeredFrom(order, text)

RECURSIVE Chain(_, _, _)
Chain(order, cats, text) ==
    IF cats = <<>> THEN <<>>
    ELSE TriggeredFrom(Collection(order, Head(cats)), text)
         \o Chain(order, Tail(cats), text)

\* Mutant: the matches are returned in the order of the collections.
ByPriorityUnsorted(matches, prios) == matches

\* sorted(matches, key=priority): a stable sort.
RECURSIVE ByPriority(_, _)
ByPriority(matches, prios) ==
    IF prios = <<>> THEN <<>>
    ELSE SelectSeq(matches, LAMBDA m : Priority(rules[m[1]]) = Head(prios))
         \o ByPriority(matches, Tail(prios))

\* Manager.get_triggered_rules over the rules registered in order: every
\* (rule, match) pair, collection after collection, the rules of a
\* collection in registration order, the matches of one rule in pattern
\* order; then by priority.
TriggeredRules(order, text) ==
    ByPriority(Chain(order, Categories, text), Priorities)

get_triggered_rules(pre) == TriggeredRules(registered, pre.text)

is_unblockable(rule) == rule.unblockable
is_threaded(rule) == rule.threaded
get_plugin_name(rule) == rule.plugin
get_rule_label(rule) == rule.label

----------------------------------------------------------------------------
(* The rate-limit ledger of a rule: Rule.is_*_rate_limited and Rule.execute *)

EmptyDict == [k \in {} |-> 0]
EmptyMetrics == [user |-> EmptyDict, channel |-> EmptyDict, glob |-> EmptyDict]

\* Limited: a positive window, a recorded last use, and less than the window
\* elapsed since it.
is_user_rate_limited(rule, m, nick, t) ==
    /\ rule.user_rate > 0
    /\ nick \in DOMAIN m.user
    /\ t - m.user[nick] < rule.user_rate

is_channel_rate_limited(rule, m, channel, t) ==
    /\ rule.channel_rate > 0
    /\ channel \in DOMAIN m.channel
    /\ t - m.channel[channel] < rule.channel_rate

is_global_rate_limited(rule, m, t) ==
    /\ rule.global_rate > 0
    /\ "*" \in DOMAIN m.glob
    /\ t - m.glob["*"] < rule.global_rate

\* What the handler of a rule can do: return a value, return the
\* ignore-rate-limit sentinel, raise an Exception, raise KeyboardInterrupt,
\* raise another BaseException (SystemExit, GeneratorExit).
Outcomes == {"ok", "nolimit", "error", "kbd", "exit"}
Raises == {"error", "kbd", "exit"}

\* Mutant: the use is not recorded for the channel.
ExecuteRecordNoChannel(m, nick, sender, exit_code, t) ==
    IF exit_code = "nolimit" THEN m
    ELSE [user |-> (nick :> t) @@ m.user,
          channel |-> m.channel,
          glob |-> ("*" :> t) @@ m.glob]

\* Rule.execute, after the handler returned exit_code at time t: the use is
\* recorded for the nick, the channel (not for a private message) and the
\* global key, unless exit_code is the sentinel.
ExecuteRecord(m, nick, sender, exit_code, t) ==
    IF exit_code = "nolimit" THEN m
    ELSE [user |-> (nick :> t) @@ m.user,
          channel |-> IF IsChannel(sender) THEN (sender :> t) @@ m.channel
                      ELSE m.channel,
          glob |-> ("*" :> t) @@ m.glob]

----------------------------------------------------------------------------
(* Per-channel configuration *)

\* A channel section: disable_plugins already split at ',' (dp, with has_dp
\* telling whether the option is set) and disable_commands (dc: "absent",
\* "ok" with the parsed mapping plugin -> labels in dc_map, or "malformed").
Section(has_dp, dp, dc, dc_map) ==
    [has_dp |-> has_dp, dp |-> dp, dc |-> dc, dc_map |-> dc_map]

InSeq(x, s) == \E i \in 1..Len(s) : s[i] = x

\* dict.get(plugin_name, [])
DictGet(d, k) == IF k \in DOMAIN d THEN d[k] ELSE {}

----------------------------------------------------------------------------
(* call_rule up to rule.execute: what it decides for a rule and a trigger *)

\* Mutant: the global limit is not consulted.
RateDecisionNoGlobal(rule, m, nick, sender, t) ==
    IF is_user_rate_limited(rule, m, nick, t) THEN "user_limited"
    ELSE IF IsChannel(sender) /\ is_channel_rate_limited(rule, m, sender, t)
         THEN "channel_limited"
    ELSE "execute"

RateDecision(rule, m, nick, sender, t) ==
    IF is_user_rate_limited(rule, m, nick, t) THEN "user_limited"
    ELSE IF IsChannel(sender) /\ is_channel_rate_limited(rule, m, sender, t)
         THEN "channel_limited"
    ELSE IF is_global_rate_limited(rule, m, t) THEN "global_limited"
    ELSE "execute"

\* Mutant: '*' is not looked for.
DisablePluginsNoStar(rule, section) ==
    IF ~section.has_dp THEN "execute"
    ELSE IF get_plugin_name(rule) = "coretasks" THEN "execute"
    ELSE IF InSeq(get_plugin_name(rule), section.dp) THEN "disabled"
    ELSE "execute"

DisablePluginsDecision(rule, section) ==
    IF ~section.has_dp THEN "execute"
    ELSE IF get_plugin_name(rule) = "coretasks" THEN "execute"
    ELSE IF InSeq("*", section.dp) THEN "disabled"
    ELSE IF InSeq(get_plugin_name(rule), section.dp) THEN "disabled"
    ELSE "execute"

DisableCommandsDecision(rule, section) ==
    IF section.dc = "absent" THEN "execute"
    ELSE IF section.dc = "malformed" THEN "config_error"
    ELSE IF get_rule_label(rule) \in DictGet(section.dc_map, get_plugin_name(rule))
            /\ get_plugin_name(rule) # "coretasks"
         THEN "disabled"
    ELSE "execute"

ChannelConfigDecision(rule, cfg, sender) ==
    IF ~(IsChannel(sender) /\ sender \in DOMAIN cfg) THEN "execute"
    ELSE IF DisablePluginsDecision(rule, cfg[sender]) # "execute"
         THEN DisablePluginsDecision(rule, cfg[sender])
    ELSE DisableCommandsDecision(rule, cfg[sender])

\* "execute", or why the rule is not executed.
CallRuleDecision(rule, m, cfg, nick, sender, t) ==
    IF ~TriggerAdmin(nick) /\ ~is_unblockable(rule)
       /\ RateDecision(rule, m, nick, sender, t) # "execute"
    THEN RateDecision(rule, m, nick, sender, t)
    ELSE ChannelConfigDecision(rule, cfg, sender)

----------------------------------------------------------------------------
(* The bound context and what the bot sends *)

\* The bot bound to nothing: bot.trigger and bot.rule are None.
Unbound == [trigger |-> [nick |-> "None", sender |-> "None"], rule |-> "None"]

\* The trigger of nick in sender, as the sending methods read it.
TriggerOf(nick, sender) == [nick |-> nick, sender |-> sender]

\* self.trigger and self.rule in context ctx.
BoundIn(b, ctx) == IF ctx \in DOMAIN b THEN b[ctx] ELSE Unbound

\* sopel_wrapper entered and left: bind_trigger and bind_rule set the
\* context variables, the tokens reset them to what they were, None.
Bind(b, ctx, trigger, rule) == (ctx :> [trigger |-> trigger, rule |-> rule]) @@ b
Unbind(b, ctx) == [c \in DOMAIN b \ {ctx} |-> b[c]]

\* default_destination: None without a trigger or a sender, else the sender
\* (no status prefix in the triggers modelled).
default_destination(trigger) ==
    IF trigger.nick = "None" \/ trigger.sender = "None" THEN "None"
    ELSE trigger.sender

\* A line handed to the backend, and what a sending method does: it raises
\* RuntimeError and sends nothing, or it sends lines.
Line(command, dest, text) == [command |-> command, dest |-> dest, text |-> text]
RaisesRuntimeError == [raised |-> TRUE, out |-> <<>>]
Sends(line) == [raised |-> FALSE, out |-> <<line>>]

\* self.output_prefix + message
Prefixed(prefix, message) ==
    IF prefix = "" THEN <<message>> ELSE <<prefix, message>>

\* Mutant: the missing destination is not looked for.
say_unchecked(trigger, prefix, message, destination) ==
    LET dest == IF destination = "None" THEN default_destination(trigger)
                ELSE destination
    IN Sends(Line("PRIVMSG", dest, Prefixed(prefix, message)))

say(trigger, prefix, message, destination) ==
    LET dest == IF destination = "None" THEN default_destination(trigger)
                ELSE destination
    IN IF dest = "None" THEN RaisesRuntimeError
       ELSE Sends(Line("PRIVMSG", dest, Prefixed(prefix, message)))

action(trigger, message, destination) ==
    LET dest == IF destination = "None" THEN default_destination(trigger)
                ELSE destination
    IN IF dest = "None" THEN RaisesRuntimeError
       ELSE Sends(Line("ACTION", dest, <<message>>))

notice(trigger, prefix, message, destination) ==
    LET dest == IF destination = "None" THEN default_destination(trigger)
                ELSE destination
    IN IF dest = "None" THEN RaisesRuntimeError
       ELSE Sends(Line("NOTICE", dest, Prefixed(prefix, message)))

\* Mutant: the reply is sent to the nick, not to the default destination.
reply_to_nick(trigger, message, destination, reply_to, as_notice) ==
    IF trigger.nick = "None" THEN RaisesRuntimeError
    ELSE Sends(Line("PRIVMSG", trigger.nick, <<trigger.nick, ": ", message>>))

\* reply: the destination as for say, reply_to defaults to the nick of the
\* trigger; the backend sends 'reply_to: message' as a message or a notice.
reply(trigger, message, destination, reply_to, as_notice) ==
    LET dest == IF destination = "None" THEN default_destination(trigger)
                ELSE destination
    IN IF dest = "None" THEN RaisesRuntimeError
       ELSE IF reply_to = "None" /\ trigger.nick = "None" THEN RaisesRuntimeError
       ELSE LET to == IF reply_to = "None" THEN trigger.nick ELSE reply_to
            IN Sends(Line(IF as_notice THEN "NOTICE" ELSE "PRIVMSG", dest,
                          <<to, ": ", message>>))

\* kick: the channel defaults to the sender of a trigger that is no private
\* message; a nick is required.
kick(trigger, nick, channel, message) ==
    IF channel = "None" /\ (trigger.nick = "None" \/ IsPrivmsg(trigger.sender))
    THEN RaisesRuntimeError
    ELSE IF nick = "" THEN RaisesRuntimeError
    ELSE Sends(Line("KICK", IF channel = "None" THEN trigger.sender ELSE channel,
                    <<nick, message>>))

\* settings.core.reply_errors
reply_errors == TRUE

\* Sopel.error: the exception is logged and, with reply_errors, said to the
\* sender of the trigger.
error(trigger, prefix) ==
    IF reply_errors /\ trigger.sender # "None"
    THEN say(trigger, prefix, "Unexpected error", trigger.sender).out
    ELSE <<>>

----------------------------------------------------------------------------
(* Spec: dispatch and the threads it spawns *)

Event(nick, host, sender, text) ==
    [nick |-> nick, host |-> host, sender |-> sender, text |-> text]

NoEvent == Event("None", "None", "None", "None")

\* The events dispatched in Spec: channel and private messages, from a user,
\* from a user on a blocked nick or host, and from an admin on a blocked host.
SpecEvents ==
    { Event("Foo", "example.com", "#chan", "a"),
      Event("Foo", "example.com", "#chan", "b"),
      Event("Bad", "example.com", "#chan", "b"),
      Event("Foo", "EVIL.HOST", "Foo", "c"),
      Event("Adm", "evil.host", "#chan", "b") }

\* The channel sections of Spec: #quiet disables a plugin, #chan has no section.
SpecConfig == ("#quiet" :> [has_dp |-> TRUE, dp |-> <<" other", "testplugin">>,
                            dc |-> "absent", dc_map |-> EmptyDict])

NoCall == [op |-> "none"]

\* The bot of Spec is in both channels; no join time was recorded.
SpecChannels == [c \in Channels |-> [join_time |-> <<>>]]

Init ==
    /\ now = 0
    /\ rules = Registry
    /\ config = SpecConfig
    /\ metrics = [r \in DOMAIN Registry |-> EmptyMetrics]
    /\ times = EmptyDict
    /\ pc = "idle"
    /\ pretrigger = NoEvent
    /\ triggered = <<>>
    /\ idx = 1
    /\ blocked_rules = {}
    /\ offers = <<>>
    /\ local_running = <<>>
    /\ execs = <<>>
    /\ running = <<>>
    /\ ndispatch = 0
    /\ escaped = "none"
    /\ reported = 0
    /\ uses = [r \in DOMAIN Registry |-> EmptyDict]
    /\ last = NoCall
    /\ channels = SpecChannels
    /\ registered = RegistryOrder
    /\ plugins = {"testplugin", "coretasks"}
    /\ pending = <<>>
    /\ bound = EmptyDict
    /\ sent = <<>>

\* Thread.is_alive(), for the thread of call_rule invocation e.
is_alive(e) == execs[e].pc # "done"

\* blocked = bool(nick_blocked or host_blocked)
Blocked(pre) == is_pretrigger_blocked(pre)[1] \/ is_pretrigger_blocked(pre)[2]

\* The rule of the loop's current entry, and the dispatch branch it takes.
CurrentRule == rules[triggered[idx][1]]

\* Mutant: the admin exemption is forgotten.
SuppressedAdminToo(pre, rule) == Blocked(pre) /\ ~is_unblockable(rule)

Suppressed(pre, rule) ==
    Blocked(pre) /\ ~(TriggerAdmin(pre.nick) \/ is_unblockable(rule))

NewExec(threaded) ==
    [disp |-> ndispatch, idx |-> idx, rule |-> triggered[idx][1],
     nick |-> pretrigger.nick, sender |-> pretrigger.sender,
     threaded |-> threaded, pc |-> "spawned", result |-> "pending",
     gate |-> 0 - 1]

\* An invocation that is over and whose dispatch call is over: nothing of it
\* is read again, only that its thread is dead.
Over == [disp |-> 0, idx |-> 0, rule |-> "None", nick |-> "None",
         sender |-> "None", threaded |-> TRUE, pc |-> "done",
         result |-> "over", gate |-> 0 - 1]

\* The dispatch call in progress, 0 when there is none.
CurrentDispatch == IF pc \in {"loop", "inline"} THEN ndispatch ELSE 0

\* A channel the bot is in, with its join time: <<>> is None, <<t>> is t.
Joined(join_time) == [join_time |-> join_time]

\* Mutant: the join time is compared the other way round.
ReplayedAfterJoin(pre, chans) ==
    /\ "time" \in DOMAIN pre
    /\ pre.sender \in DOMAIN chans
    /\ chans[pre.sender].join_time # <<>>
    /\ pre.time > chans[pre.sender].join_time[1]

\* "time" in pretrigger.tags, the sender is a channel the bot is in, its join
\* time is known and the message is older.
Replayed(pre, chans) ==
    /\ "time" \in DOMAIN pre
    /\ pre.sender \in DOMAIN chans
    /\ chans[pre.sender].join_time # <<>>
    /\ pre.time < chans[pre.sender].join_time[1]

\* dispatch, from its entry to the for loop, or to its return for a replayed
\* message (pretrigger then keeps the message that was dropped). The model
\* stops calling dispatch when the call could take the call_rule invocations
\* past MaxExecs.
DispatchBegin(pre) ==
    /\ pc = "idle"
    /\ Replayed(pre, channels)
          \/ Len(execs) + Len(get_triggered_rules(pre)) <= MaxExecs
    /\ pretrigger' = pre
    /\ IF Replayed(pre, channels)
       THEN UNCHANGED <<ndispatch, triggered, pc>>
       ELSE /\ ndispatch' = ndispatch + 1
            /\ triggered' = get_triggered_rules(pre)
            /\ pc' = "loop"
    /\ idx' = 1
    /\ blocked_rules' = {}
    /\ offers' = <<>>
    /\ local_running' = <<>>
    /\ UNCHANGED <<now, rules, config, metrics, times, execs, running, escaped,
                   reported, uses, last>>
    /\ UNCHANGED RegistryVars
    /\ UNCHANGED ContextVars

\* One iteration: the rule is suppressed by the blocklist.
DispatchSuppress ==
    /\ pc = "loop"
    /\ idx <= Len(triggered)
    /\ Suppressed(pretrigger, CurrentRule)
    /\ blocked_rules' = blocked_rules \cup {triggered[idx][1]}
    /\ offers' = Append(offers, "blocked")
    /\ idx' = idx + 1
    /\ UNCHANGED <<now, rules, config, metrics, times, pc, pretrigger, triggered,
                   local_running, execs, running, ndispatch, escaped, reported, uses, last>>
    /\ UNCHANGED RegistryVars
    /\ UNCHANGED ContextVars

\* Mutant: a rule that was already given a thread in this call is passed over.
DispatchSpawnOncePerRule ==
    /\ pc = "loop"
    /\ idx <= Len(triggered)
    /\ ~Suppressed(pretrigger, CurrentRule)
    /\ is_threaded(CurrentRule)
    /\ IF \E i \in 1..(idx - 1) : triggered[i][1] = triggered[idx][1]
       THEN UNCHANGED <<execs, local_running>>
       ELSE /\ execs' = Append(execs, NewExec(TRUE))
            /\ local_running' = Append(local_running, Len(execs) + 1)
    /\ offers' = Append(offers, "thread")
    /\ idx' = idx + 1
    /\ UNCHANGED <<now, rules, config, metrics, times, pc, pretrigger, triggered,
                   blocked_rules, running, ndispatch, escaped, reported, uses, last>>
    /\ UNCHANGED RegistryVars
    /\ UNCHANGED ContextVars

\* One iteration: a thread is started on call_rule and the loop goes on.
DispatchSpawn ==
    /\ pc = "loop"
    /\ idx <= Len(triggered)
    /\ ~Suppressed(pretrigger, CurrentRule)
    /\ is_threaded(CurrentRule)
    /\ execs' = Append(execs, NewExec(TRUE))
    /\ local_running' = Append(local_running, Len(execs) + 1)
    /\ offers' = Append(offers, "thread")
    /\ idx' = idx + 1
    /\ UNCHANGED <<now, rules, config, metrics, times, pc, pretrigger, triggered,
                   blocked_rules, running, ndispatch, escaped, reported, uses, last>>
    /\ UNCHANGED RegistryVars
    /\ UNCHANGED ContextVars

\* Mutant: the loop goes on without waiting for the direct call.
DispatchInlineNoWait ==
    /\ pc = "loop"
    /\ idx <= Len(triggered)
    /\ ~Suppressed(pretrigger, CurrentRule)
    /\ ~is_threaded(CurrentRule)
    /\ execs' = Append(execs, NewExec(FALSE))
    /\ offers' = Append(offers, "inline")
    /\ idx' = idx + 1
    /\ UNCHANGED <<now, rules, config, metrics, times, pc, pretrigger, triggered,
                   blocked_rules, local_running, running, ndispatch, escaped,
                   reported, uses, last>>
    /\ UNCHANGED RegistryVars
    /\ UNCHANGED ContextVars

\* One iteration: call_rule is called directly; the loop waits for it.
DispatchInline ==
    /\ pc = "loop"
    /\ idx <= Len(triggered)
    /\ ~Suppressed(pretrigger, CurrentRule)
    /\ ~is_threaded(CurrentRule)
    /\ execs' = Append(execs, NewExec(FALSE))
    /\ offers' = Append(offers, "inline")
    /\ idx' = idx + 1
    /\ pc' = "inline"
    /\ UNCHANGED <<now, rules, config, metrics, times, pretrigger, triggered,
                   blocked_rules, local_running, running, ndispatch, escaped,
                   reported, uses, last>>
    /\ UNCHANGED RegistryVars
    /\ UNCHANGED ContextVars

\* _update_running_triggers, under the lock: the new threads, then the tracked
\* ones, the finished ones dropped.
update_running_triggers(new) ==
    SelectSeq(new \o running, LAMBDA e : is_alive(e))

\* Mutant: dispatch joins the threads it started before it returns.
DispatchEndJoin ==
    /\ pc = "loop"
    /\ idx > Len(triggered)
    /\ \A i \in 1..Len(local_running) : ~is_alive(local_running[i])
    /\ running' = update_running_triggers(local_running)
    /\ pc' = "idle"
    /\ pretrigger' = NoEvent
    /\ triggered' = <<>>
    /\ idx' = 1
    /\ blocked_rules' = {}
    /\ offers' = <<>>
    /\ local_running' = <<>>
    /\ execs' = [e \in 1..Len(execs) |-> IF is_alive(e) THEN execs[e] ELSE Over]
    /\ UNCHANGED <<now, rules, config, metrics, times, ndispatch, escaped,
                   reported, uses, last>>
    /\ UNCHANGED RegistryVars
    /\ UNCHANGED ContextVars

\* The loop is over: dispatch updates the tracked threads and returns; its
\* locals are gone.
DispatchEnd ==
    /\ pc = "loop"
    /\ idx > Len(triggered)
    /\ running' = update_running_triggers(local_running)
    /\ pc' = "idle"
    /\ pretrigger' = NoEvent
    /\ triggered' = <<>>
    /\ idx' = 1
    /\ blocked_rules' = {}
    /\ offers' = <<>>
    /\ local_running' = <<>>
    /\ execs' = [e \in 1..Len(execs) |-> IF is_alive(e) THEN execs[e] ELSE Over]
    /\ UNCHANGED <<now, rules, config, metrics, times, ndispatch, escaped, reported,
                   uses, last>>
    /\ UNCHANGED RegistryVars
    /\ UNCHANGED ContextVars

\* Where the dispatching thread is once call_rule invocation e has ended with
\* exception exc ("none": it returned): a thread's end does not touch it, an
\* inline call returns to the loop or lets the exception out of dispatch.
AfterCallRule(e, exc) ==
    IF execs[e].threaded THEN UNCHANGED <<pc, escaped>>
    ELSE IF exc = "none" THEN pc' = "loop" /\ UNCHANGED escaped
    ELSE pc' = "raised" /\ escaped' = exc

\* The record of invocation e once it has ended with result.
Ended(e, result) ==
    IF execs[e].disp = CurrentDispatch
    THEN [execs[e] EXCEPT !.pc = "done", !.result = result]
    ELSE Over

Decision(e) ==
    CallRuleDecision(rules[execs[e].rule], metrics[execs[e].rule], config,
                     execs[e].nick, execs[e].sender, now)

\* Rule.get_user_rate_message, get_channel_rate_message and
\* get_global_rate_message: the message the rule was declared with, "" (None)
\* when it was declared with none.
get_user_rate_message(rule) ==
    IF "user_rate_message" \in DOMAIN rule THEN rule.user_rate_message ELSE ""
get_channel_rate_message(rule) ==
    IF "channel_rate_message" \in DOMAIN rule THEN rule.channel_rate_message
    ELSE ""
get_global_rate_message(rule) ==
    IF "global_rate_message" \in DOMAIN rule THEN rule.global_rate_message
    ELSE ""

\* The message of the limit call_rule returned for.
RateMessage(rule, decision) ==
    CASE decision = "user_limited" -> get_user_rate_message(rule)
      [] decision = "channel_limited" -> get_channel_rate_message(rule)
      [] decision = "global_limited" -> get_global_rate_message(rule)
      [] OTHER -> ""

\* Mutant: the notice goes to the default destination.
RateNoticeToSender(rule, decision, nick, sender) ==
    IF RateMessage(rule, decision) = "" THEN <<>>
    ELSE notice(TriggerOf(nick, sender), OutputPrefix(rule),
                RateMessage(rule, decision), "None").out

\* What call_rule sends before it returns for a limit: a notice to the nick
\* when the rule has a message for that limit.
RateNotice(rule, decision, nick, sender) ==
    IF RateMessage(rule, decision) = "" THEN <<>>
    ELSE notice(TriggerOf(nick, sender), OutputPrefix(rule),
                RateMessage(rule, decision), nick).out

\* What leaves call_rule when it stops before rule.execute: nothing when the
\* rule is rate limited or disabled, the error of reading the channel section.
GateRaises(decision) == IF decision = "config_error" THEN "error" ELSE "none"

\* The context call_rule invocation e runs in: the one of its thread, or the
\* one of the thread that runs dispatch.
MainContext == 0
\* Mutant: one context for every thread.
ContextShared(e) == MainContext

Context(e) == IF execs[e].threaded THEN e ELSE MainContext

\* Mutant: the bot stays bound when the handler raised.
UnbindUnlessRaised(b, ctx, outcome) ==
    IF outcome \in Raises THEN b ELSE Unbind(b, ctx)

\* The finally clause of sopel_wrapper.
UnbindFinally(b, ctx, outcome) == Unbind(b, ctx)

\* call_rule returns before rule.execute: rate limited, after the notice of
\* the limit, or disabled in the channel (or the channel section cannot be
\* read, which raises). All of it is inside sopel_wrapper, which binds the
\* bot and unbinds it.
CallRuleSkip(e) ==
    /\ execs[e].pc = "spawned"
    /\ Decision(e) # "execute"
    /\ Len(sent) + Len(RateNotice(rules[execs[e].rule], Decision(e),
                                  execs[e].nick, execs[e].sender)) <= MaxSent
    /\ execs' = [execs EXCEPT ![e] = Ended(e, Decision(e))]
    /\ AfterCallRule(e, GateRaises(Decision(e)))
    /\ UNCHANGED <<now, rules, config, metrics, times, pretrigger, triggered, idx,
                   blocked_rules, offers, local_running, running, ndispatch,
                   reported, uses, last>>
    /\ UNCHANGED RegistryVars
    /\ bound' = UnbindFinally(Bind(bound, Context(e),
                                   TriggerOf(execs[e].nick, execs[e].sender),
                                   execs[e].rule),
                              Context(e), GateRaises(Decision(e)))
    /\ sent' = sent \o RateNotice(rules[execs[e].rule], Decision(e),
                                  execs[e].nick, execs[e].sender)

\* call_rule reaches rule.execute, the bot bound by sopel_wrapper: the handler
\* starts.
CallRuleExecute(e) ==
    /\ execs[e].pc = "spawned"
    /\ Decision(e) = "execute"
    /\ execs' = [execs EXCEPT ![e].pc = "handler", ![e].gate = now]
    /\ bound' = Bind(bound, Context(e),
                     TriggerOf(execs[e].nick, execs[e].sender), execs[e].rule)
    /\ UNCHANGED sent
    /\ UNCHANGED <<now, rules, config, metrics, times, pc, pretrigger, triggered,
                   idx, blocked_rules, offers, local_running, running, ndispatch,
                   escaped, reported, uses, last>>
    /\ UNCHANGED RegistryVars

\* Mutant: call_rule has no except clause.
CallRuleRaisesUncaught(outcome) ==
    IF outcome \in Raises THEN outcome ELSE "none"

\* What leaves call_rule when the handler ended with outcome: an Exception is
\* caught and reported by Sopel.error, KeyboardInterrupt is raised again, and
\* a BaseException that is no Exception is not caught.
CallRuleRaises(outcome) ==
    IF outcome \in {"kbd", "exit"} THEN outcome ELSE "none"

\* The begin times of the handler runs of a rule for a nick that returned a
\* value, with the run of invocation e added.
UsesWith(e) ==
    LET r == execs[e].rule
        n == execs[e].nick
        sofar == IF n \in DOMAIN uses[r] THEN uses[r][n] ELSE <<>>
    IN  [uses EXCEPT ![r] = (n :> Append(sofar, execs[e].gate)) @@ @]

\* What the handler of invocation e sends: the reply of a handler that
\* replies, to the trigger the bot is bound to in its context.
HandlerSends(e) ==
    IF Replies(rules[execs[e].rule]) = "None" THEN <<>>
    ELSE reply(BoundIn(bound, Context(e)).trigger,
               Replies(rules[execs[e].rule]), "None", "None", FALSE).out

\* What Sopel.error sends for an Exception of the handler of invocation e.
ErrorSends(e, outcome) ==
    IF outcome = "error"
    THEN error(BoundIn(bound, Context(e)).trigger,
               OutputPrefix(rules[execs[e].rule]))
    ELSE <<>>

\* The handler ends: it has sent what it sends, Rule.execute records the use
\* when the handler returned, an Exception is reported, sopel_wrapper unbinds
\* the bot and call_rule ends.
HandlerReturn(e, outcome) ==
    /\ execs[e].pc = "handler"
    /\ sent' = sent \o HandlerSends(e) \o ErrorSends(e, outcome)
    /\ bound' = UnbindFinally(bound, Context(e), outcome)
    /\ execs' = [execs EXCEPT ![e] = Ended(e, outcome)]
    /\ metrics' = IF outcome \in Raises THEN metrics
                  ELSE [metrics EXCEPT ![execs[e].rule] =
                            ExecuteRecord(@, execs[e].nick, execs[e].sender,
                                          outcome, now)]
    /\ uses' = IF outcome = "ok" /\ rules[execs[e].rule].user_rate > 0
               THEN UsesWith(e) ELSE uses
    /\ reported' = IF outcome = "error" THEN reported + 1 ELSE reported
    /\ AfterCallRule(e, CallRuleRaises(outcome))
    /\ UNCHANGED <<now, rules, config, times, pretrigger, triggered, idx,
                   blocked_rules, offers, local_running, running, ndispatch, last>>
    /\ UNCHANGED RegistryVars

Tick ==
    /\ now < MaxTime
    /\ now' = now + 1
    /\ UNCHANGED <<rules, config, metrics, times, pc, pretrigger, triggered, idx,
                   blocked_rules, offers, local_running, execs, running,
                   ndispatch, escaped, reported, uses, last>>
    /\ UNCHANGED RegistryVars
    /\ UNCHANGED ContextVars

Next ==
    \/ \E pre \in SpecEvents : DispatchBegin(pre)
    \/ DispatchSuppress
    \/ DispatchSpawn
    \/ DispatchInline
    \/ DispatchEnd
    \/ \E e \in 1..Len(execs) : CallRuleSkip(e)
    \/ \E e \in 1..Len(execs) : CallRuleExecute(e)
    \/ \E e \in 1..Len(execs), outcome \in Outcomes : HandlerReturn(e, outcome)
    \/ Tick

Spec == Init /\ [][Next]_vars

\* The dispatching thread runs on: its loop and the calls it makes directly
\* take their steps, and a handler called directly returns. Nothing is
\* assumed of a handler running on a thread.
DispatcherStep ==
    DispatchSuppress \/ DispatchSpawn \/ DispatchInline \/ DispatchEnd

InlineStep ==
    \E e \in 1..Len(execs) :
        /\ ~execs[e].threaded
        /\ \/ CallRuleSkip(e)
           \/ CallRuleExecute(e)
           \/ \E outcome \in Outcomes : HandlerReturn(e, outcome)

SpecLive == Spec /\ WF_vars(DispatcherStep) /\ WF_vars(InlineStep)

----------------------------------------------------------------------------
(* Claims on dispatch (Spec, SpecLive) *)

InDispatch == pc \in {"loop", "inline"}

\* The invocations of the dispatch call in progress.
Current == {e \in 1..Len(execs) : InDispatch /\ execs[e].disp = ndispatch}

InvocationAt(k) == {e \in Current : execs[e].idx = k}

\* C1: a matched rule is suppressed by the blocklist exactly when the nick or
\* the host of the event is blocked, the rule is not unblockable and the user
\* is no admin; no call_rule invocation exists for a suppressed entry, one
\* exists for every other entry the loop has passed; and the loop reaches the
\* end of the list with every entry handled.
C1_BlocklistSuppression ==
    InDispatch =>
        /\ \A k \in 1..Len(offers) :
              LET rule == rules[triggered[k][1]]
                  mustBlock ==
                      /\ nick_blocked(pretrigger.nick) \/ host_blocked(pretrigger.host)
                      /\ ~rule.unblockable
                      /\ ~TriggerAdmin(pretrigger.nick)
              IN  /\ (offers[k] = "blocked") <=> mustBlock
                  /\ (offers[k] = "blocked") => InvocationAt(k) = {}
                  /\ (offers[k] = "blocked") => triggered[k][1] \in blocked_rules
                  /\ (offers[k] # "blocked") => InvocationAt(k) # {}
        /\ Len(offers) = idx - 1
        /\ idx <= Len(triggered) + 1

\* A suppressed entry is followed by an entry whose rule is executing.
C1_Witness ==
    /\ InDispatch
    /\ \E k \in 1..Len(offers) :
          /\ offers[k] = "blocked"
          /\ \E e \in Current : execs[e].idx > k /\ execs[e].pc = "handler"

\* C2: for a rule with a user rate limit R > 0 that is not unblockable and a
\* user who is no admin, no two handler runs of the rule for the user that
\* returned a value began less than R seconds apart.
C2_OncePerWindow ==
    \A r \in DOMAIN uses : \A n \in DOMAIN uses[r] :
        (~rules[r].unblockable /\ ~TriggerAdmin(n)) =>
            \A i, j \in 1..Len(uses[r][n]) :
                i < j =>
                    \/ uses[r][n][j] - uses[r][n][i] >= rules[r].user_rate
                    \/ uses[r][n][i] - uses[r][n][j] >= rules[r].user_rate

C3_WitnessLaterDispatch ==
    /\ reported > 0
    /\ \A e \in Current : execs[e].result # "error"
    /\ \E e \in Current : execs[e].pc = "handler" /\ ~execs[e].threaded

\* C9: within one dispatch the invocations are made in the order of the
\* triggered list, and when an entry that is not threaded precedes another
\* one, its call_rule has ended before the later entry's thread is started or
\* its direct call begins.
C9_UnthreadedBlocksLoop ==
    \A a, b \in 1..Len(execs) :
        (execs[a].disp > 0 /\ execs[a].disp = execs[b].disp) =>
            /\ (a < b) <=> (execs[a].idx < execs[b].idx)
            /\ (execs[a].idx < execs[b].idx /\ ~execs[a].threaded)
                   => execs[a].pc = "done"
            /\ (execs[a].pc # "done" /\ ~execs[a].threaded)
                   => (pc = "inline" /\ execs[a].idx = idx - 1)

\* A direct call has ended and the next entry's thread has been started.
C9_Witness ==
    \E a, b \in Current :
        /\ ~execs[a].threaded
        /\ execs[a].pc = "done"
        /\ execs[b].threaded
        /\ execs[b].idx = execs[a].idx + 1

\* C10: a dispatch call whose directly called handlers return always ends,
\* whatever the handlers on its threads do.
C10_DispatchTerminates == InDispatch ~> (pc \in {"idle", "raised"})

\* dispatch has returned while the handler of a thread it started is running.
C10_Witness ==
    /\ pc = "idle"
    /\ ndispatch > 0
    /\ \E e \in 1..Len(execs) :
          /\ execs[e].threaded
          /\ execs[e].pc = "handler"
          /\ execs[e].disp = ndispatch

----------------------------------------------------------------------------
(* SpecCall: call_rule, Rule.execute and the legacy call, one call at a time *)

\* Who sends the triggers of SpecCall: a user and an admin.
CallNicks == {"Foo", "Adm"}

\* The rule under call, and the key of the legacy callable in Sopel._times.
TheRule == "r"

\* Rules of every rate kind, in a bot whose channels have no section.
RatedRules ==
    { Rule("testplugin", "hello", TRUE, FALSE, user_rate, channel_rate,
           global_rate, <<{"a"}>>) :
        user_rate \in {0 - 1, 0, 1}, channel_rate \in {0, 1},
        global_rate \in {0, 1} }
    \cup { Rule("testplugin", "hello", TRUE, TRUE, 1, 1, 1, <<{"a"}>>) }

\* Sections of #chan: a plugin listed, '*' listed, a plugin listed with the
\* blank that follows the comma, labels listed for a plugin, the built-in
\* plugin listed in both options.
CallSections ==
    { Section(TRUE, <<"other", "testplugin">>, "absent", EmptyDict),
      Section(TRUE, <<"*">>, "absent", EmptyDict),
      Section(TRUE, <<"other", " testplugin">>, "absent", EmptyDict),
      Section(FALSE, <<>>, "ok", ("testplugin" :> {"hello"})),
      Section(FALSE, <<>>, "ok", ("testplugin" :> {"bye"}) @@ ("other" :> {"hello"})),
      Section(TRUE, <<"coretasks">>, "ok", ("coretasks" :> {"hello"})) }

\* Rules of both owners, without windows, for the channel sections.
PlainRules ==
    { Rule(plugin, "hello", TRUE, FALSE, 0, 0, 0, <<{"a"}>>) :
        plugin \in {"testplugin", "coretasks"} }

\* The bots of SpecCall: a rule and the channel sections of the settings.
CallSetups ==
    { [rule |-> rule, config |-> EmptyDict] : rule \in RatedRules }
    \cup { [rule |-> rule, config |-> ("#chan" :> section)] :
             rule \in PlainRules, section \in CallSections }

\* The last call: which entry point, from whom, where, what was decided and
\* how the handler ended ("none" when it was not called).
CallOf(api, op, nick, sender, decision, outcome) ==
    [api |-> api, op |-> op, nick |-> nick, sender |-> sender,
     decision |-> decision, outcome |-> outcome]

InitCall ==
    /\ now = 0
    /\ \E setup \in CallSetups :
         /\ rules = (TheRule :> setup.rule)
         /\ config = setup.config
    /\ metrics = (TheRule :> EmptyMetrics)
    /\ times = EmptyDict
    /\ pc = "idle"
    /\ pretrigger = NoEvent
    /\ triggered = <<>>
    /\ idx = 1
    /\ blocked_rules = {}
    /\ offers = <<>>
    /\ local_running = <<>>
    /\ execs = <<>>
    /\ running = <<>>
    /\ ndispatch = 0
    /\ escaped = "none"
    /\ reported = 0
    /\ uses = (TheRule :> EmptyDict)
    /\ \E api \in {"rule", "legacy"} :
         last = CallOf(api, "none", "None", "None", "none", "none")
    /\ channels = SpecChannels
    /\ registered = <<TheRule>>
    /\ plugins = {get_plugin_name(rules[TheRule])}
    /\ pending = <<>>
    /\ bound = EmptyDict
    /\ sent = <<>>

\* What no call of SpecCall touches: the dispatcher, its threads and what it
\* counts. The outcome of a call is kept in last.
DispatcherVars ==
    <<rules, config, pc, pretrigger, triggered, idx, blocked_rules, offers,
      local_running, execs, running, ndispatch, escaped, reported, uses>>

\* How long a handler takes, in seconds.
Durations == {0, 1}

\* The handler can take d seconds.
CanEnd(d) == now + d <= MaxCallTime

\* call_rule as a whole: the gates, then rule.execute, which calls the handler
\* and records the use when the handler returned.
CallRule(nick, sender, outcome, d) ==
    /\ last.api = "rule"
    /\ CanEnd(d)
    /\ LET decision == CallRuleDecision(rules[TheRule], metrics[TheRule],
                                        config, nick, sender, now)
       IN IF decision = "execute"
          THEN /\ now' = now + d
               /\ metrics' = IF outcome \in Raises THEN metrics
                             ELSE [metrics EXCEPT ![TheRule] =
                                     ExecuteRecord(@, nick, sender, outcome, now + d)]
               /\ last' = CallOf("rule", "call_rule", nick, sender, decision, outcome)
          ELSE /\ last' = CallOf("rule", "call_rule", nick, sender, decision, "none")
               /\ UNCHANGED <<now, metrics>>
    /\ Len(sent) + Len(RateNotice(rules[TheRule], last'.decision, nick, sender))
          <= MaxSent
    /\ sent' = sent \o RateNotice(rules[TheRule], last'.decision, nick, sender)
    /\ UNCHANGED bound
    /\ UNCHANGED times
    /\ UNCHANGED DispatcherVars
    /\ UNCHANGED RegistryVars

\* Rule.execute called directly, as the tests of the rule do: an exception of
\* the handler goes to the caller.
RuleExecute(nick, sender, outcome, d) ==
    /\ last.api = "rule"
    /\ CanEnd(d)
    /\ now' = now + d
    /\ metrics' = IF outcome \in Raises THEN metrics
                  ELSE [metrics EXCEPT ![TheRule] =
                          ExecuteRecord(@, nick, sender, outcome, now + d)]
    /\ last' = CallOf("rule", "execute", nick, sender, "execute", outcome)
    /\ UNCHANGED times
    /\ UNCHANGED DispatcherVars
    /\ UNCHANGED RegistryVars
    /\ UNCHANGED ContextVars

\* Mutant: the head of call records a use in the dicts it makes.
TimesTouchedStamped(tm, nick, sender) ==
    LET keys == {nick, BotNick} \cup (IF IsPrivmsg(sender) THEN {} ELSE {sender})
    IN [k \in DOMAIN tm \cup keys |->
          IF k \in DOMAIN tm THEN tm[k] ELSE (TheRule :> 0)]

\* The head of call: a dict for the nick, for the bot's nick and, unless the
\* message is private, for the sender.
TimesTouched(tm, nick, sender) ==
    LET keys == {nick, BotNick} \cup (IF IsPrivmsg(sender) THEN {} ELSE {sender})
    IN [k \in DOMAIN tm \cup keys |-> IF k \in DOMAIN tm THEN tm[k] ELSE EmptyDict]

\* Mutant: the window is compared with <= and not required to be positive.
LegacyLimitedInclusive(func, tm, key, rate, t) ==
    /\ func \in DOMAIN tm[key]
    /\ t - tm[key][func] <= rate

\* A limit of call: func in self._times[key], rate > 0 and timediff < rate.
LegacyLimited(func, tm, key, rate, t) ==
    /\ func \in DOMAIN tm[key]
    /\ rate > 0
    /\ t - tm[key][func] < rate

\* The rate limits of call: user, then global, then channel.
LegacyRateDecision(func, rule, tm, nick, sender, t) ==
    IF LegacyLimited(func, tm, nick, rule.user_rate, t) THEN "user_limited"
    ELSE IF LegacyLimited(func, tm, BotNick, rule.global_rate, t)
         THEN "global_limited"
    ELSE IF ~IsPrivmsg(sender)
            /\ LegacyLimited(func, tm, sender, rule.channel_rate, t)
         THEN "channel_limited"
    ELSE "execute"

\* The channel section in call, consulted for every plugin but coretasks.
LegacyConfigDecision(rule, cfg, sender) ==
    IF ~(sender \in DOMAIN cfg /\ get_plugin_name(rule) # "coretasks")
    THEN "execute"
    ELSE IF cfg[sender].has_dp /\ InSeq("*", cfg[sender].dp) THEN "disabled"
    ELSE IF cfg[sender].has_dp /\ InSeq(get_plugin_name(rule), cfg[sender].dp)
         THEN "disabled"
    ELSE IF cfg[sender].dc = "absent" THEN "execute"
    ELSE IF cfg[sender].dc = "malformed" THEN "config_error"
    ELSE IF get_plugin_name(rule) \in DOMAIN cfg[sender].dc_map
            /\ get_rule_label(rule) \in cfg[sender].dc_map[get_plugin_name(rule)]
         THEN "disabled"
    ELSE "execute"

LegacyDecision(func, rule, tm, cfg, nick, sender, t) ==
    IF ~TriggerAdmin(nick) /\ ~rule.unblockable
       /\ LegacyRateDecision(func, rule, tm, nick, sender, t) # "execute"
    THEN LegacyRateDecision(func, rule, tm, nick, sender, t)
    ELSE LegacyConfigDecision(rule, cfg, sender)

\* Mutant: the sentinel is recorded like any other value.
LegacyRecordAlways(tm, func, nick, sender, exit_code, t) ==
    [k \in DOMAIN tm |->
        IF k \in {nick, BotNick} \/ (~IsPrivmsg(sender) /\ k = sender)
        THEN (func :> t) @@ tm[k] ELSE tm[k]]

\* The tail of call: unless exit_code is NOLIMIT, current_time is recorded
\* for the nick, the bot's nick and, unless the message is private, the sender.
LegacyRecord(tm, func, nick, sender, exit_code, t) ==
    IF exit_code = "nolimit" THEN tm
    ELSE [k \in DOMAIN tm |->
            IF k \in {nick, BotNick} \/ (~IsPrivmsg(sender) /\ k = sender)
            THEN (func :> t) @@ tm[k] ELSE tm[k]]

\* call as a whole. current_time is read when call begins; an Exception of
\* the handler is reported and counts as the exit code None; any other
\* exception leaves call before the tail.
Call(nick, sender, outcome, d) ==
    /\ last.api = "legacy"
    /\ CanEnd(d)
    /\ LET tm == TimesTouched(times, nick, sender)
           decision == LegacyDecision(TheRule, rules[TheRule], tm, config,
                                      nick, sender, now)
       IN IF decision = "execute"
          THEN /\ now' = now + d
               /\ times' = IF outcome \in {"kbd", "exit"} THEN tm
                           ELSE LegacyRecord(tm, TheRule, nick, sender,
                                             IF outcome = "error" THEN "None"
                                             ELSE outcome, now)
               /\ last' = CallOf("legacy", "call", nick, sender, decision, outcome)
          ELSE /\ times' = tm
               /\ last' = CallOf("legacy", "call", nick, sender, decision, "none")
               /\ UNCHANGED now
    /\ UNCHANGED metrics
    /\ UNCHANGED DispatcherVars
    /\ UNCHANGED RegistryVars
    /\ UNCHANGED ContextVars

\* A second passes between two calls.
TickCall ==
    /\ now < MaxCallTime
    /\ now' = now + 1
    /\ last' = [last EXCEPT !.op = "tick"]
    /\ UNCHANGED <<metrics, times>>
    /\ UNCHANGED DispatcherVars
    /\ UNCHANGED RegistryVars
    /\ UNCHANGED ContextVars

\* The senders of SpecCall: a channel, or the nick itself in a private message.
CallSenders(nick) == {"#chan", nick}

NextCall ==
    \/ \E nick \in CallNicks, outcome \in Outcomes, d \in Durations :
         \E sender \in CallSenders(nick) : CallRule(nick, sender, outcome, d)
    \/ \E nick \in CallNicks, outcome \in Outcomes, d \in Durations :
         \E sender \in CallSenders(nick) : RuleExecute(nick, sender, outcome, d)
    \/ \E nick \in CallNicks, outcome \in Outcomes, d \in Durations :
         \E sender \in CallSenders(nick) : Call(nick, sender, outcome, d)
    \/ TickCall

SpecCall == InitCall /\ [][NextCall]_vars

----------------------------------------------------------------------------
(* Claims on call_rule, Rule.execute and call (SpecCall) *)

RateLimitedDecisions == {"user_limited", "channel_limited", "global_limited"}

\* What the rule reports for a trigger of nick in sender at time t.
ReportsLimited(rule, m, nick, sender, t) ==
    \/ is_user_rate_limited(rule, m, nick, t)
    \/ IsChannel(sender) /\ is_channel_rate_limited(rule, m, sender, t)
    \/ is_global_rate_limited(rule, m, t)

\* What call finds in Sopel._times for a trigger of nick in sender at time t.
FindsLimited(rule, tm, nick, sender, t) ==
    LET touched == TimesTouched(tm, nick, sender)
    IN \/ LegacyLimited(TheRule, touched, nick, rule.user_rate, t)
       \/ LegacyLimited(TheRule, touched, BotNick, rule.global_rate, t)
       \/ ~IsPrivmsg(sender)
          /\ LegacyLimited(TheRule, touched, sender, rule.channel_rate, t)

Exempt(rule, nick) == TriggerAdmin(nick) \/ is_unblockable(rule)

\* C4: in every call of call_rule, for a user who is no admin and a rule that
\* is not unblockable, the handler is not executed when the rule reports the
\* user limit, the channel limit (trigger in a channel) or the global limit as
\* exceeded; for an admin or an unblockable rule the decision is the one of
\* the channel section alone, whatever the rule reports. The same holds of
\* call and what it finds in Sopel._times.
C4_RateGate ==
    [][ /\ last'.op = "call_rule" =>
             LET rule == rules[TheRule]
                 nick == last'.nick
                 sender == last'.sender
             IN /\ ( /\ ~Exempt(rule, nick)
                     /\ ReportsLimited(rule, metrics[TheRule], nick, sender, now) )
                   => last'.decision \in RateLimitedDecisions
                /\ Exempt(rule, nick)
                   => last'.decision = ChannelConfigDecision(rule, config, sender)
        /\ last'.op = "call" =>
             LET rule == rules[TheRule]
                 nick == last'.nick
                 sender == last'.sender
             IN /\ ( /\ ~Exempt(rule, nick)
                     /\ FindsLimited(rule, times, nick, sender, now) )
                   => last'.decision \in RateLimitedDecisions
                /\ Exempt(rule, nick)
                   => last'.decision = LegacyConfigDecision(rule, config, sender)
      ]_vars

\* call_rule refused a user in a channel for the global limit alone.
C4_Witness ==
    /\ last.op = "call_rule"
    /\ last.nick = "Foo"
    /\ last.sender = "#chan"
    /\ last.decision = "global_limited"

\* call_rule executed the rule for an admin although the rule reports the
\* admin as limited.
C4_WitnessAdmin ==
    /\ last.op = "call_rule"
    /\ last.nick = "Adm"
    /\ last.decision = "execute"
    /\ ~is_unblockable(rules[TheRule])
    /\ is_user_rate_limited(rules[TheRule], metrics[TheRule], "Adm", now)

AllWindowsPositive(rule) ==
    rule.user_rate > 0 /\ rule.channel_rate > 0 /\ rule.global_rate > 0

\* C5: for a rule whose three windows are positive, while nothing is recorded
\* no query reports a limit, for any user, channel or time; and right after an
\* execution for a trigger in a channel whose handler returned a value that is
\* not the sentinel, the three queries report the limit for that user, that
\* channel and the global key.
C5_FirstThenLimited ==
    /\ [] ( ( /\ AllWindowsPositive(rules[TheRule])
              /\ metrics[TheRule] = EmptyMetrics )
            => \A nick \in CallNicks, t \in 0..MaxCallTime :
                 /\ ~is_user_rate_limited(rules[TheRule], metrics[TheRule], nick, t)
                 /\ ~is_channel_rate_limited(rules[TheRule], metrics[TheRule], "#chan", t)
                 /\ ~is_global_rate_limited(rules[TheRule], metrics[TheRule], t) )
    /\ [][ ( /\ last'.op \in {"execute", "call_rule"}
             /\ last'.decision = "execute"
             /\ last'.outcome = "ok"
             /\ IsChannel(last'.sender)
             /\ AllWindowsPositive(rules[TheRule]) )
           => /\ is_user_rate_limited(rules[TheRule], metrics'[TheRule],
                                      last'.nick, now')
              /\ is_channel_rate_limited(rules[TheRule], metrics'[TheRule],
                                         last'.sender, now')
              /\ is_global_rate_limited(rules[TheRule], metrics'[TheRule], now')
         ]_vars

\* The first execution of a rule with three positive windows has just returned
\* a value, for a user in a channel.
C5_Witness ==
    /\ last.op = "execute"
    /\ last.outcome = "ok"
    /\ last.nick = "Foo"
    /\ last.sender = "#chan"
    /\ AllWindowsPositive(rules[TheRule])
    /\ metrics[TheRule].user = ("Foo" :> now)
    /\ is_channel_rate_limited(rules[TheRule], metrics[TheRule], "#chan", now)

\* C6: an execution whose handler returns the sentinel leaves the ledger of
\* the rule as it was, and every query, for any user, sender and time, answers
\* after it what it answered before; call adds at most empty dicts to
\* Sopel._times and every limit it finds after, it found before.
C6_SentinelLeavesLedger ==
    [][ /\ ( /\ last'.op \in {"execute", "call_rule"}
             /\ last'.outcome = "nolimit" )
           => /\ metrics' = metrics
              /\ \A nick \in CallNicks, t \in 0..MaxCallTime :
                   \A sender \in CallSenders(nick) :
                     RateDecision(rules[TheRule], metrics'[TheRule], nick, sender, t)
                       = RateDecision(rules[TheRule], metrics[TheRule], nick, sender, t)
        /\ ( /\ last'.op = "call"
             /\ last'.outcome = "nolimit" )
           => /\ times' = TimesTouched(times, last'.nick, last'.sender)
              /\ \A nick \in CallNicks, t \in 0..MaxCallTime :
                   \A sender \in CallSenders(nick) :
                     FindsLimited(rules[TheRule], times', nick, sender, t)
                       = FindsLimited(rules[TheRule], times, nick, sender, t)
      ]_vars

\* call ran a handler that returned the sentinel, for a user whose earlier use
\* is on record, under a rule with a user window.
C6_Witness ==
    /\ last.op = "call"
    /\ last.outcome = "nolimit"
    /\ last.nick = "Foo"
    /\ rules[TheRule].user_rate > 0
    /\ "Foo" \in DOMAIN times
    /\ TheRule \in DOMAIN times["Foo"]

\* A handler run by Rule.execute returned the sentinel with a use on record.
C6_WitnessRule ==
    /\ last.op \in {"execute", "call_rule"}
    /\ last.outcome = "nolimit"
    /\ AllWindowsPositive(rules[TheRule])
    /\ metrics[TheRule] # EmptyMetrics

\* C7: a rule whose window for a key type is zero or less is never reported
\* as limited for that key type, by the queries of the rule or by call, for
\* any user, sender and time, whatever was executed before; and no call was
\* refused for that key type.
C7_NoWindowNeverLimited ==
    LET rule == rules[TheRule]
        touched(nick, sender) == TimesTouched(times, nick, sender)
    IN /\ rule.user_rate <= 0 =>
            /\ last.decision # "user_limited"
            /\ \A nick \in CallNicks, t \in 0..MaxCallTime :
                 /\ ~is_user_rate_limited(rule, metrics[TheRule], nick, t)
                 /\ ~LegacyLimited(TheRule, touched(nick, "#chan"), nick,
                                   rule.user_rate, t)
       /\ rule.channel_rate <= 0 =>
            /\ last.decision # "channel_limited"
            /\ \A nick \in CallNicks, t \in 0..MaxCallTime :
                 /\ ~is_channel_rate_limited(rule, metrics[TheRule], "#chan", t)
                 /\ ~LegacyLimited(TheRule, touched(nick, "#chan"), "#chan",
                                   rule.channel_rate, t)
       /\ rule.global_rate <= 0 =>
            /\ last.decision # "global_limited"
            /\ \A nick \in CallNicks, t \in 0..MaxCallTime :
                 /\ ~is_global_rate_limited(rule, metrics[TheRule], t)
                 /\ ~LegacyLimited(TheRule, touched(nick, "#chan"), BotNick,
                                   rule.global_rate, t)

\* call executed a rule with a negative user window for a user in a channel,
\* and the use is on record at this very second.
C7_Witness ==
    /\ last.op = "call"
    /\ last.decision = "execute"
    /\ last.nick = "Foo"
    /\ last.sender = "#chan"
    /\ rules[TheRule].user_rate < 0
    /\ "Foo" \in DOMAIN times
    /\ TheRule \in DOMAIN times["Foo"]
    /\ times["Foo"][TheRule] = now

\* The same after Rule.execute, for a rule without any window.
C7_WitnessRule ==
    /\ last.op = "call_rule"
    /\ last.decision = "execute"
    /\ rules[TheRule].user_rate = 0
    /\ rules[TheRule].channel_rate = 0
    /\ rules[TheRule].global_rate = 0
    /\ "Foo" \in DOMAIN metrics[TheRule].user
    /\ metrics[TheRule].user["Foo"] = now

\* The section lists the plugin of the rule, or '*', in disable_plugins, or
\* the label of the rule for its plugin in disable_commands.
Listed(rule, section) ==
    \/ section.has_dp /\ InSeq(get_plugin_name(rule), section.dp)
    \/ section.has_dp /\ InSeq("*", section.dp)
    \/ /\ section.dc = "ok"
       /\ get_plugin_name(rule) \in DOMAIN section.dc_map
       /\ get_rule_label(rule) \in section.dc_map[get_plugin_name(rule)]

\* C8: in every call of call_rule for a trigger in a channel that has a
\* section, a rule of another plugin than coretasks is not executed when the
\* section lists it, and a rule of coretasks is never refused for the section.
C8_ChannelDisable ==
    ( /\ last.op = "call_rule"
      /\ IsChannel(last.sender)
      /\ last.sender \in DOMAIN config )
    => /\ ( /\ get_plugin_name(rules[TheRule]) # "coretasks"
            /\ Listed(rules[TheRule], config[last.sender]) )
          => last.decision # "execute"
       /\ get_plugin_name(rules[TheRule]) = "coretasks"
          => last.decision \in {"execute"} \cup RateLimitedDecisions

\* call_rule refused a rule in a channel whose section lists '*'.
C8_Witness ==
    /\ last.op = "call_rule"
    /\ last.sender = "#chan"
    /\ "#chan" \in DOMAIN config
    /\ InSeq("*", config["#chan"].dp)
    /\ last.decision = "disabled"

\* call_rule executed a rule of coretasks that both options of the section list.
C8_WitnessCoretasks ==
    /\ last.op = "call_rule"
    /\ last.sender = "#chan"
    /\ "#chan" \in DOMAIN config
    /\ get_plugin_name(rules[TheRule]) = "coretasks"
    /\ Listed(rules[TheRule], config["#chan"])
    /\ last.decision = "execute"

----------------------------------------------------------------------------
(* SpecReplay: dispatch of messages that carry a server time *)

\* The dispatcher at rest, no call made, nothing bound, nothing sent.
AtRest ==
    /\ now = 0
    /\ times = EmptyDict
    /\ pc = "idle"
    /\ pretrigger = NoEvent
    /\ triggered = <<>>
    /\ idx = 1
    /\ blocked_rules = {}
    /\ offers = <<>>
    /\ local_running = <<>>
    /\ execs = <<>>
    /\ running = <<>>
    /\ ndispatch = 0
    /\ escaped = "none"
    /\ reported = 0
    /\ last = NoCall
    /\ pending = <<>>
    /\ bound = EmptyDict
    /\ sent = <<>>

\* A message with the server-time tag: pretrigger.tags has "time" and
\* pretrigger.time is that time.
Tagged(pre, t) == [time |-> t] @@ pre

\* The bot is in #chan since second 1, in #chan without a join time, or in no
\* channel.
ReplayChannels ==
    { ("#chan" :> Joined(<<1>>)), ("#chan" :> Joined(<<>>)), EmptyDict }

\* Messages to #chan sent before, at and after second 1, one without the tag,
\* and a private message sent before.
ReplayEvents ==
    { Tagged(Event("Foo", "example.com", "#chan", "a"), 0),
      Tagged(Event("Foo", "example.com", "#chan", "a"), 1),
      Tagged(Event("Foo", "example.com", "#chan", "b"), 2),
      Event("Foo", "example.com", "#chan", "b"),
      Tagged(Event("Foo", "example.com", "Foo", "c"), 0) }

InitReplay ==
    /\ AtRest
    /\ rules = Registry
    /\ config = SpecConfig
    /\ metrics = [r \in DOMAIN Registry |-> EmptyMetrics]
    /\ uses = [r \in DOMAIN Registry |-> EmptyDict]
    /\ registered = RegistryOrder
    /\ plugins = {"testplugin", "coretasks"}
    /\ channels \in ReplayChannels

NextReplay ==
    \/ \E pre \in ReplayEvents : DispatchBegin(pre)
    \/ DispatchSpawn
    \/ DispatchInline
    \/ DispatchEnd
    \/ \E e \in 1..Len(execs) : CallRuleSkip(e)
    \/ \E e \in 1..Len(execs) : CallRuleExecute(e)
    \/ \E e \in 1..Len(execs), outcome \in Outcomes : HandlerReturn(e, outcome)

SpecReplay == InitReplay /\ [][NextReplay]_vars

\* C11: a dispatch call for a message that carries a server time, to a
\* channel the bot is in with a recorded join time, sent before that join
\* time, returns at once: no rule is matched, no call_rule invocation is made,
\* no thread is tracked, nothing is sent or recorded; a call for any other
\* message goes to the loop with the rules the manager returns for it.
C11_ReplayDropped ==
    [][ ( /\ pc = "idle"
          /\ pretrigger' # pretrigger \/ pc' = "loop" )
        => IF /\ "time" \in DOMAIN pretrigger'
              /\ pretrigger'.sender \in DOMAIN channels
              /\ channels[pretrigger'.sender].join_time # <<>>
              /\ pretrigger'.time < channels[pretrigger'.sender].join_time[1]
           THEN /\ pc' = "idle"
                /\ triggered' = <<>>
                /\ execs' = execs
                /\ running' = running
                /\ metrics' = metrics
                /\ sent' = sent
           ELSE /\ pc' = "loop"
                /\ triggered' = TriggeredRules(registered, pretrigger'.text)
                /\ Len(triggered') > 0
      ]_vars

\* A message to #chan older than the join was dropped after the handlers of
\* an earlier message had run.
C11_Witness ==
    /\ pc = "idle"
    /\ "time" \in DOMAIN pretrigger
    /\ pretrigger.sender = "#chan"
    /\ "#chan" \in DOMAIN channels
    /\ channels["#chan"].join_time # <<>>
    /\ pretrigger.time < channels["#chan"].join_time[1]
    /\ Len(execs) > 0

\* A message to #chan sent at the very second of the join is in the loop.
C11_WitnessProceeds ==
    /\ pc = "loop"
    /\ "time" \in DOMAIN pretrigger
    /\ "#chan" \in DOMAIN channels
    /\ channels["#chan"].join_time = <<pretrigger.time>>

----------------------------------------------------------------------------
(* Claims on the tracked threads and the bound context (Spec) *)

\* The threads Sopel.running_triggers returns.
running_triggers == SelectSeq(running, LAMBDA e : is_alive(e))

\* C12: every thread a dispatch call started that is alive once the call has
\* ended, however it ended, is returned by running_triggers.
C12_SpawnedAreTracked ==
    \A e \in 1..Len(execs) :
        ( /\ execs[e].threaded
          /\ is_alive(e)
          /\ ~(InDispatch /\ execs[e].disp = ndispatch) )
        => InSeq(e, running_triggers)

\* C12 for the dispatch calls that returned: the same, while no exception
\* has left dispatch.
C12_TrackedAfterReturn ==
    escaped = "none" => C12_SpawnedAreTracked

\* A thread of a dispatch call that has returned is alive and tracked.
C12_Witness ==
    /\ pc = "idle"
    /\ \E e \in 1..Len(execs) :
          execs[e].threaded /\ is_alive(e) /\ InSeq(e, running_triggers)

----------------------------------------------------------------------------
(* SpecPlugins: plugins added and removed while messages are dispatched *)

\* The callables of the plugins, as rules: a rule of A with three patterns, a
\* command of A whose handler replies, a rule of B of high priority.
PluginRules ==
    [r \in {"a1", "a2", "b1"} |->
        CASE r = "a1" ->
                Rule("A", "a1", TRUE, FALSE, 0, 0, 0, <<{"x"}, {"z"}, {"x", "y"}>>)
          [] r = "a2" ->
                [category |-> "command", replies |-> "Hi!"]
                @@ Rule("A", "a2", FALSE, FALSE, 2, 0, 0, <<{"y", "h"}>>)
          [] r = "b1" ->
                [priority |-> "high"]
                @@ Rule("B", "b1", FALSE, FALSE, 0, 0, 0, <<{"y"}>>)]

PluginNames == {"A", "B", "C"}

\* The callables a plugin hands to add_plugin, in order: A declares its
\* command before its rule, C has none.
Callables(plugin) ==
    CASE plugin = "A" -> <<"a2", "a1">>
      [] plugin = "B" -> <<"b1">>
      [] OTHER -> <<>>

\* #quiet disables plugin A.
PluginConfig == ("#quiet" :> Section(TRUE, <<"A">>, "absent", EmptyDict))

PluginEvents ==
    { Event("Foo", "example.com", "#chan", "x"),
      Event("Foo", "example.com", "#chan", "y"),
      Event("Foo", "example.com", "#chan", "h"),
      Event("Foo", "example.com", "#quiet", "h") }

InitPlugins ==
    /\ AtRest
    /\ rules = PluginRules
    /\ config = PluginConfig
    /\ metrics = [r \in DOMAIN PluginRules |-> EmptyMetrics]
    /\ uses = [r \in DOMAIN PluginRules |-> EmptyDict]
    /\ registered = <<>>
    /\ plugins = {}
    /\ channels = SpecChannels

\* What no plugin operation touches.
AllButRegistry ==
    <<now, rules, config, times, pc, pretrigger, triggered, idx,
      blocked_rules, offers, local_running, execs, running, ndispatch,
      escaped, reported, uses, last, channels, bound, sent>>

\* Mutant: every name is taken for a registered plugin.
has_plugin_any(name) == name \in plugins \cup PluginNames

has_plugin(name) == name \in plugins

\* add_plugin up to register_callables: the plugin is in the registry of
\* plugins, its callables are still to be registered.
AddPlugin(plugin) ==
    /\ pending = <<>>
    /\ ~has_plugin(plugin)
    /\ plugins' = plugins \cup {plugin}
    /\ pending' = Callables(plugin)
    /\ UNCHANGED <<registered, metrics>>
    /\ UNCHANGED AllButRegistry

\* Manager.register, register_command, ...: the rule is the last of its
\* collection.
Register(order, r) == Append(order, r)

\* One turn of the loop of register_callables: a rule is made from the
\* callable, with an empty ledger, and registered.
RegisterCallable ==
    /\ pending # <<>>
    /\ registered' = Register(registered, Head(pending))
    /\ pending' = Tail(pending)
    /\ metrics' = [metrics EXCEPT ![Head(pending)] = EmptyMetrics]
    /\ UNCHANGED plugins
    /\ UNCHANGED AllButRegistry

\* Manager.unregister_plugin: every rule, command and URL callback of the
\* plugin leaves the manager, in one step.
unregister_plugin(order, plugin) ==
    SelectSeq(order, LAMBDA r : get_plugin_name(rules[r]) # plugin)

\* Mutant: the plugin leaves the registry of plugins, its rules stay.
RemovePluginKeepRules(plugin) ==
    /\ pending = <<>>
    /\ has_plugin(plugin)
    /\ plugins' = plugins \ {plugin}
    /\ UNCHANGED <<registered, pending, metrics>>
    /\ UNCHANGED AllButRegistry

\* remove_plugin, for a plugin that was added (it raises PluginNotRegistered
\* for any other).
RemovePlugin(plugin) ==
    /\ pending = <<>>
    /\ has_plugin(plugin)
    /\ registered' = unregister_plugin(registered, plugin)
    /\ plugins' = plugins \ {plugin}
    /\ UNCHANGED <<pending, metrics>>
    /\ UNCHANGED AllButRegistry

\* The plugins with callables.
RulePlugins == {"A", "B"}

NextPlugins ==
    \/ \E plugin \in RulePlugins : AddPlugin(plugin)
    \/ RegisterCallable
    \/ \E plugin \in RulePlugins : RemovePlugin(plugin)
    \/ \E pre \in PluginEvents :
         Len(get_triggered_rules(pre)) > 0 /\ DispatchBegin(pre)
    \/ DispatchSpawn
    \/ DispatchInline
    \/ DispatchEnd
    \/ \E e \in 1..Len(execs) : CallRuleSkip(e)
    \/ \E e \in 1..Len(execs) : CallRuleExecute(e)
    \/ \E e \in 1..Len(execs), outcome \in Outcomes : HandlerReturn(e, outcome)

SpecPlugins == InitPlugins /\ [][NextPlugins]_vars

----------------------------------------------------------------------------
(* Claims checked under SpecPlugins *)

\* A call_rule invocation that is inside sopel_wrapper with the handler
\* running.
InHandler(e) == execs[e].pc = "handler"

\* C13: once a call_rule invocation has finished, by a normal return, a rate
\* limited return, a channel-disabled return or an exception of the handler,
\* bot.trigger and bot.rule are None again in its context; so whenever no
\* inline invocation is in its handler the main context is unbound and the
\* next inline call_rule binds without error.
C13_UnboundAfterCallRule ==
    /\ \A e \in 1..Len(execs) :
          (execs[e].threaded /\ ~InHandler(e)) => BoundIn(bound, e) = Unbound
    /\ (\A e \in 1..Len(execs) : ~(~execs[e].threaded /\ InHandler(e)))
          => BoundIn(bound, MainContext) = Unbound

\* An inline call_rule is bound, in the dispatch call in which an earlier
\* inline call_rule ended with an exception that Sopel.error reported.
C13_Witness ==
    \E e1, e2 \in 1..Len(execs) :
        /\ e1 < e2
        /\ ~execs[e1].threaded /\ execs[e1].result = "error"
        /\ ~execs[e2].threaded /\ InHandler(e2)
        /\ BoundIn(bound, MainContext).rule = execs[e2].rule

\* An inline call_rule has returned because the rule is rate limited, one
\* because the plugin is disabled in the channel: the bot is unbound.
C13_WitnessLimited ==
    \E e \in 1..Len(execs) :
        /\ ~execs[e].threaded /\ execs[e].result = "user_limited"
        /\ BoundIn(bound, MainContext) = Unbound

C13_WitnessDisabled ==
    \E e \in 1..Len(execs) :
        /\ ~execs[e].threaded /\ execs[e].result = "disabled"
        /\ BoundIn(bound, MainContext) = Unbound

----------------------------------------------------------------------------
(* SpecSend: the sending methods called on a bot bound or not *)

\* The triggers sopel_wrapper binds the bot to: a channel message, a private
\* message, an event without sender.
SendTriggers ==
    { TriggerOf("Foo", "#chan"), TriggerOf("Foo", "Foo"), TriggerOf("Foo", "None") }

\* The destination (or channel) argument: None or given.
Destinations == {"None", "#quiet"}

\* All but what a sending method reads or writes.
AllButSending ==
    <<now, rules, config, metrics, times, pc, pretrigger, triggered, idx,
      blocked_rules, offers, local_running, execs, running, ndispatch, escaped,
      reported, uses, channels, registered, plugins, pending>>

InitSend ==
    /\ AtRest
    /\ rules = Registry
    /\ config = SpecConfig
    /\ metrics = [r \in DOMAIN Registry |-> EmptyMetrics]
    /\ uses = [r \in DOMAIN Registry |-> EmptyDict]
    /\ registered = RegistryOrder
    /\ plugins = {"testplugin", "coretasks"}
    /\ channels = SpecChannels

\* with bot.sopel_wrapper(trigger, rule): entered on an unbound bot.
WrapperEnter(trigger) ==
    /\ BoundIn(bound, MainContext) = Unbound
    /\ bound' = Bind(bound, MainContext, trigger, "greet")
    /\ last' = [op |-> "bind"]
    /\ UNCHANGED sent
    /\ UNCHANGED AllButSending

\* The with block is left.
WrapperExit ==
    /\ BoundIn(bound, MainContext) # Unbound
    /\ bound' = UnbindFinally(bound, MainContext, "none")
    /\ last' = [op |-> "unbind"]
    /\ UNCHANGED sent
    /\ UNCHANGED AllButSending

\* A sending method was called with destination and did res: what it sent is
\* with the backend, in order.
Sending(op, destination, res) ==
    /\ Len(sent) + Len(res.out) <= MaxSent
    /\ sent' = sent \o res.out
    /\ last' = [op |-> op, destination |-> destination, raised |-> res.raised]
    /\ UNCHANGED bound
    /\ UNCHANGED AllButSending

Say(destination) ==
    Sending("say", destination,
            say(BoundIn(bound, MainContext).trigger, "", "m", destination))

Notice(destination) ==
    Sending("notice", destination,
            notice(BoundIn(bound, MainContext).trigger, "", "m", destination))

Action(destination) ==
    Sending("action", destination,
            action(BoundIn(bound, MainContext).trigger, "m", destination))

Reply(destination, reply_to) ==
    Sending("reply", destination,
            reply(BoundIn(bound, MainContext).trigger, "m", destination,
                  reply_to, FALSE))

Kick(channel) ==
    Sending("kick", channel,
            kick(BoundIn(bound, MainContext).trigger, "Bar", channel, "m"))

NextSend ==
    \/ \E trigger \in SendTriggers : WrapperEnter(trigger)
    \/ WrapperExit
    \/ \E destination \in Destinations : Say(destination)
    \/ \E destination \in Destinations : Notice(destination)
    \/ \E destination \in Destinations : Action(destination)
    \/ \E destination \in Destinations, reply_to \in {"None", "Bar"} :
         Reply(destination, reply_to)
    \/ \E channel \in Destinations : Kick(channel)

SpecSend == InitSend /\ [][NextSend]_vars

\* The bot the call is made on has no destination to default to: it is
\* unbound, or bound to a trigger without sender.
NoDefaultDestination ==
    \/ BoundIn(bound, MainContext) = Unbound
    \/ BoundIn(bound, MainContext).trigger.sender = "None"

\* The bot the call is made on has no channel to default to: it is unbound, or
\* bound to a private message.
NoDefaultChannel ==
    \/ BoundIn(bound, MainContext) = Unbound
    \/ ( /\ BoundIn(bound, MainContext).trigger.sender # "None"
         /\ IsPrivmsg(BoundIn(bound, MainContext).trigger.sender) )

\* C14: say, notice, action and reply called without destination on a bot
\* that has none to default to, and kick called without channel on a bot that
\* is unbound or bound to a private message, raise and hand nothing to the
\* backend.
C14_NoDestinationRaises ==
    [][ /\ ( /\ last'.op \in {"say", "notice", "action", "reply"}
             /\ last'.destination = "None"
             /\ NoDefaultDestination )
           => (last'.raised /\ sent' = sent)
        /\ ( /\ last'.op = "kick"
             /\ last'.destination = "None"
             /\ NoDefaultChannel )
           => (last'.raised /\ sent' = sent) ]_vars

\* say without destination was called on the unbound bot and raised.
C14_Witness ==
    /\ last.op = "say" /\ last.destination = "None" /\ last.raised
    /\ BoundIn(bound, MainContext) = Unbound
    /\ sent = <<>>

\* reply without destination raised on a bot bound to an event without sender;
\* kick without channel raised on a bot bound to a private message.
C14_WitnessNoSender ==
    /\ last.op = "reply" /\ last.destination = "None" /\ last.raised
    /\ BoundIn(bound, MainContext).trigger = TriggerOf("Foo", "None")

C14_WitnessKick ==
    /\ last.op = "kick" /\ last.destination = "None" /\ last.raised
    /\ BoundIn(bound, MainContext).trigger = TriggerOf("Foo", "Foo")

\* say without destination sent to the channel of the trigger the bot is
\* bound to.
C14_WitnessSent ==
    /\ last.op = "say" /\ last.destination = "None" /\ ~last.raised
    /\ sent = <<Line("PRIVMSG", "#chan", <<"m">>)>>

----------------------------------------------------------------------------
(* Claims about what a dispatched command sends, checked under SpecPlugins *)

\* The handler of invocation e returns a value in this step.
Returns(e) ==
    /\ InHandler(e)
    /\ e <= Len(execs')
    /\ execs'[e].pc = "done"
    /\ execs'[e].result \in {"ok", "nolimit"}

\* Invocation e is the only rule of a channel message, a command whose
\* handler calls reply once.
OnlyReplyingCommand(e) ==
    /\ InHandler(e)
    /\ pc = "inline"
    /\ execs[e].disp = ndispatch
    /\ Len(triggered) = 1
    /\ Category(rules[execs[e].rule]) = "command"
    /\ Replies(rules[execs[e].rule]) # "None"
    /\ IsChannel(execs[e].sender)

----------------------------------------------------------------------------
(* SpecRegistry: plugins added and removed, and the manager asked *)

\* All but what a query of the manager writes.
AllButQuery ==
    <<now, rules, config, metrics, times, pc, idx, blocked_rules, offers,
      local_running, execs, running, ndispatch, escaped, reported, uses, last,
      channels, registered, plugins, pending, bound, sent>>

\* get_triggered_rules is called for a message: triggered keeps the answer.
GetTriggeredRules(pre) ==
    /\ pretrigger' = pre
    /\ triggered' = get_triggered_rules(pre)
    /\ UNCHANGED AllButQuery

NextRegistry ==
    \/ \E plugin \in PluginNames : AddPlugin(plugin)
    \/ RegisterCallable
    \/ \E plugin \in PluginNames : RemovePlugin(plugin)
    \/ \E pre \in PluginEvents : GetTriggeredRules(pre)

SpecRegistry == InitPlugins /\ [][NextRegistry]_vars

\* has_rule, has_command, ...: a rule of that name registered by the plugin.
IsRegistered(order, r) == InSeq(r, order)

\* The matches that are not of a rule of the plugin, in order.
WithoutPlugin(matches, plugin) ==
    SelectSeq(matches, LAMBDA m : get_plugin_name(rules[m[1]]) # plugin)

C16_WitnessNothing ==
    /\ has_plugin("C") /\ pending = <<>>
    /\ Len(registered) = 3

----------------------------------------------------------------------------
(* Claims about the rules a dispatch call is given, checked under SpecPlugins *)

\* The elements of a sequence.
Elements(seq) == { seq[i] : i \in 1..Len(seq) }

\* The rules among the callables of a plugin that match a line, and those of
\* them a dispatch call was given.
MatchingOf(plugin, text) ==
    { r \in Elements(Callables(plugin)) : RuleMatch(r, text) # <<>> }

GivenOf(plugin) ==
    { m[1] : m \in Elements(triggered) } \cap Elements(Callables(plugin))

\* C17: whatever add_plugin and remove_plugin do meanwhile, one call of
\* get_triggered_rules gives dispatch all the rules of a plugin that match
\* the line, or none of them.
C17_AllOrNone ==
    InDispatch =>
        \A plugin \in RulePlugins :
            \/ GivenOf(plugin) = {}
            \/ GivenOf(plugin) = MatchingOf(plugin, pretrigger.text)

\* A dispatch call was given rules of A while add_plugin was registering the
\* callables of A.
C17_Witness ==
    /\ InDispatch
    /\ pending # <<>>
    /\ GivenOf("A") # {}

\* The same for the calls made while no plugin is being added: with
\* unregister_plugin a single step, a removed plugin is given whole or not at
\* all.
C17_AllOrNoneOutsideAddPlugin ==
    [][ (pc = "idle" /\ pc' = "loop" /\ pending = <<>>)
        => \A plugin \in RulePlugins :
             LET given == { m[1] : m \in Elements(triggered') }
                              \cap Elements(Callables(plugin))
             IN  given = {} \/ given = MatchingOf(plugin, pretrigger'.text) ]_vars

\* The matches of rule r in a list of matches, in order.
EntriesOf(matches, r) == SelectSeq(matches, LAMBDA m : m[1] = r)

\* The patterns of rule r that match a line.
MatchingPatterns(r, text) ==
    { k \in 1..Len(rules[r].patterns) : text \in rules[r].patterns[k] }

\* The call_rule invocations the dispatch call in progress made for rule r.
OfferedTo(r) ==
    { e \in 1..Len(execs) : execs[e].disp = ndispatch /\ execs[e].rule = r }

\* C18: for a registered rule R with N patterns of which K match the line,
\* get_triggered_rules gives dispatch exactly K entries for R, one for each
\* matching pattern, in the order the patterns were declared, and the dispatch
\* call has called call_rule for R K times when its loop is over.
C18_OneEntryPerMatchingPattern ==
    [][ /\ (pc = "idle" /\ pc' = "loop")
           => \A r \in Elements(registered) :
                LET entries == EntriesOf(triggered', r)
                    matching == MatchingPatterns(r, pretrigger'.text)
                IN  /\ Len(entries) = Cardinality(matching)
                    /\ { entries[i][2] : i \in 1..Len(entries) } = matching
                    /\ \A i, j \in 1..Len(entries) :
                          i < j => entries[i][2] < entries[j][2]
        /\ (pc = "loop" /\ pc' = "idle")
           => \A r \in DOMAIN rules :
                Cardinality(OfferedTo(r)) = Len(EntriesOf(triggered, r)) ]_vars

\* 'x' matches the first and the third of the three patterns of a1: the
\* dispatch call was given two entries and has started two threads for a1.
C18_Witness ==
    /\ pc = "loop" /\ idx > Len(triggered)
    /\ pretrigger.text = "x"
    /\ triggered = << <<"a1", 1>>, <<"a1", 3>> >>
    /\ Cardinality(OfferedTo("a1")) = 2

\* The place of a priority in the order high, medium, low, and the place of
\* a match in a list of matches.
Scale(m) == CHOOSE i \in 1..Len(Priorities) : Priorities[i] = Priority(rules[m[1]])
Position(matches, m) == CHOOSE i \in 1..Len(matches) : matches[i] = m

\* C19: in what get_triggered_rules returns for a line, a match of a rule of
\* higher priority comes before a match of a rule of lower priority, whatever
\* the order of registration, and matches of equal priority are in the order
\* the collections give; the call_rule invocations of one dispatch call are
\* made in that order.
C19_HighPriorityFirst ==
    /\ \A pre \in PluginEvents :
          LET got == TriggeredRules(registered, pre.text)
              base == Chain(registered, Categories, pre.text)
          IN  \A i, j \in 1..Len(got) :
                i < j =>
                    /\ Scale(got[i]) <= Scale(got[j])
                    /\ Scale(got[i]) = Scale(got[j])
                          => Position(base, got[i]) < Position(base, got[j])
    /\ InDispatch =>
          \A e1, e2 \in 1..Len(execs) :
              ( /\ e1 < e2
                /\ execs[e1].disp = ndispatch
                /\ execs[e2].disp = ndispatch )
              => Scale(<<execs[e1].rule, 1>>) <= Scale(<<execs[e2].rule, 1>>)

\* The rule of B, of high priority, was registered after the rules of A, of
\* medium priority: 'y' matches all three and b1 was offered execution first.
C19_Witness ==
    /\ InDispatch
    /\ registered = <<"a2", "a1", "b1">>
    /\ pretrigger.text = "y"
    /\ triggered = << <<"b1", 1>>, <<"a1", 3>>, <<"a2", 1>> >>
    /\ \E e1, e2 \in 1..Len(execs) :
          /\ e1 < e2
          /\ execs[e1].disp = ndispatch /\ execs[e1].rule = "b1"
          /\ execs[e2].disp = ndispatch /\ execs[e2].rule = "a1"

\* The same with the rule of B registered first.
C19_WitnessRegisteredFirst ==
    /\ InDispatch
    /\ registered = <<"b1", "a2", "a1">>
    /\ triggered = << <<"b1", 1>>, <<"a1", 3>>, <<"a2", 1>> >>

----------------------------------------------------------------------------
(* Claims about the order of get_triggered_rules, checked under SpecRegistry *)

\* The place of the collection of a match's rule among the collections, and
\* the place of the rule in the order of registration.
CategoryIndex(m) ==
    CHOOSE i \in 1..Len(Categories) : Categories[i] = Category(rules[m[1]])
RegistrationIndex(order, m) == CHOOSE i \in 1..Len(order) : order[i] = m[1]

\* The places a pattern can have in the declaration of a rule.
PatternIndices == UNION { 1..Len(rules[r].patterns) : r \in DOMAIN rules }

\* Every pattern of a registered rule that matches the line is in the
\* matches, once, and nothing else is.
EachOnce(matches, order, text) ==
    /\ \A i, j \in 1..Len(matches) : i # j => matches[i] # matches[j]
    /\ Elements(matches) =
          { m \in Elements(order) \X PatternIndices :
                m[2] \in MatchingPatterns(m[1], text) }

\* The matches are in the order of the collections and, within a collection,
\* in the order of registration: all of them, or those of equal priority.
InCategoryOrder(matches, order, equal_priority_only) ==
    \A i, j \in 1..Len(matches) :
        (i < j /\ (equal_priority_only => Scale(matches[i]) = Scale(matches[j])))
        => /\ CategoryIndex(matches[i]) <= CategoryIndex(matches[j])
           /\ CategoryIndex(matches[i]) = CategoryIndex(matches[j])
                 => RegistrationIndex(order, matches[i])
                        <= RegistrationIndex(order, matches[j])

\* A call of get_triggered_rules is answered in this step.
Answered == <<pretrigger', triggered'>> # <<pretrigger, triggered>>

C20_WitnessPriority ==
    /\ registered = <<"a2", "a1", "b1">>
    /\ pretrigger.text = "y"
    /\ triggered = << <<"b1", 1>>, <<"a1", 3>>, <<"a2", 1>> >>

----------------------------------------------------------------------------
(* Text, and the patterns of commands *)

\* A line is a sequence of pieces: " " is whitespace, every other piece is a
\* run of characters without whitespace; pieces that follow each other
\* without " " in between are written together ("." then "hello" is .hello).
IsSpace(piece) == piece = " "

\* A group that took no part in the match (None); a group that matched the
\* empty text is <<>>.
Absent == <<"None">>

\* re.IGNORECASE on the command words the model uses.
Fold(piece) == IF piece = "HELLO" THEN "hello" ELSE piece

\* The text after its leading whitespace (\s+ and \s* are greedy).
RECURSIVE SkipSpaces(_)
SkipSpaces(text) ==
    IF text # <<>> /\ IsSpace(Head(text)) THEN SkipSpaces(Tail(text)) ELSE text

\* The longest beginning of the text without whitespace (\S+ is greedy).
RECURSIVE TakeWord(_)
TakeWord(text) ==
    IF text = <<>> \/ IsSpace(Head(text)) THEN <<>>
    ELSE <<Head(text)>> \o TakeWord(Tail(text))

\* The text without its first n pieces.
Drop(text, n) == SubSeq(text, n + 1, Len(text))

\* (?:(\S+))? (?:\s+(\S+))? (?:\s+(\S+))? (?:\s+(\S+))? on text: n groups,
\* the first without whitespace before it; a group whose \S+ finds nothing
\* is absent and leaves the text where it was.
RECURSIVE Parameters(_, _, _)
Parameters(text, n, first) ==
    IF n = 0 THEN <<>>
    ELSE LET from == IF first THEN text ELSE SkipSpaces(text)
             spaced == first \/ (text # <<>> /\ IsSpace(Head(text)))
             word == IF spaced THEN TakeWord(from) ELSE <<>>
         IN  IF word = <<>>
             THEN <<Absent>> \o Parameters(text, n - 1, FALSE)
             ELSE <<word>> \o Parameters(Drop(from, Len(word)), n - 1, FALSE)

NoMatch == [matched |-> FALSE]

\* What follows the command word, which is group 1:
\*   (?:\s+((?:(\S+))?(?:\s+(\S+))?(?:\s+(\S+))?(?:\s+(\S+))?.*))?$
\* the line ends, or whitespace is followed by the rest of the line, group 2,
\* of which the first four words are groups 3 to 6.
CommandTail(word, rest) ==
    IF rest = <<>>
    THEN [matched |-> TRUE, word |-> word, rest |-> Absent,
          params |-> <<Absent, Absent, Absent, Absent>>]
    ELSE IF ~IsSpace(Head(rest)) THEN NoMatch
    ELSE [matched |-> TRUE, word |-> word, rest |-> SkipSpaces(rest),
          params |-> Parameters(SkipSpaces(rest), 4, TRUE)]

\* (name|alias|...) at the beginning of text, then the tail.
CommandWord(names, text) ==
    IF text = <<>> \/ Fold(Head(text)) \notin names THEN NoMatch
    ELSE CommandTail(<<Head(text)>>, Tail(text))

\* Mutant: the prefix is optional.
CommandParseAnyPrefix(prefix, names, text) ==
    IF text # <<>> /\ Head(text) = prefix THEN CommandWord(names, Tail(text))
    ELSE CommandWord(names, text)

\* Command: ^prefix(name|alias|...) and the tail.
CommandParse(prefix, names, text) ==
    IF text = <<>> \/ Head(text) # prefix THEN NoMatch
    ELSE CommandWord(names, Tail(text))

\* Mutant: the nickname of the bot alone, not its aliases.
NickCommandParseNickOnly(nicks, names, text) ==
    IF text = <<>> \/ Head(text) # BotNick THEN NoMatch
    ELSE LET after == IF Len(text) > 1 /\ text[2] \in {":", ","}
                      THEN Drop(text, 2) ELSE Tail(text)
         IN  IF after = <<>> \/ ~IsSpace(Head(after)) THEN NoMatch
             ELSE CommandWord(names, SkipSpaces(after))

\* NickCommand, and nickname_command: ^(nick|alias|...)[:,]?\s+(name|...)
\* and the tail.
NickCommandParse(nicks, names, text) ==
    IF text = <<>> \/ Head(text) \notin nicks THEN NoMatch
    ELSE LET after == IF Len(text) > 1 /\ text[2] \in {":", ","}
                      THEN Drop(text, 2) ELSE Tail(text)
         IN  IF after = <<>> \/ ~IsSpace(Head(after)) THEN NoMatch
             ELSE CommandWord(names, SkipSpaces(after))

\* ActionCommand: ^(name|alias|...) and the tail, on the text of the action.
ActionCommandParse(names, text) == CommandWord(names, text)

----------------------------------------------------------------------------
(* SpecMatch: Rule.match of rules and commands on parsed lines *)

MaxParams == 5

\* The nickname of the bot and core.alias_nicks.
BotNicks == {BotNick, "AliasBot", "SupBot"}

\* A rule as match reads it.
Matcher(kind, prefix, name, aliases, events, intents, allow_echo) ==
    [kind |-> kind, prefix |-> prefix, name |-> name, aliases |-> aliases,
     events |-> events, intents |-> intents, allow_echo |-> allow_echo]

Names(rule) == {rule.name} \cup rule.aliases

\* The rules that are matched: commands with the prefix . and ?, a nick
\* command, action commands without and with intent filters, rules that
\* match every text, by default, on JOIN, with an intent filter, with echo.
MatchCommands ==
    { Matcher("command", ".", "hello", {"hi"}, {"PRIVMSG"}, {}, FALSE),
      Matcher("command", "?", "hello", {"hi"}, {"PRIVMSG"}, {}, FALSE) }

MatchNickCommands ==
    { Matcher("nick_command", "", "hello", {"hi"}, {"PRIVMSG"}, {}, FALSE) }

MatchActionCommands ==
    { Matcher("action_command", "", "hello", {"hi"}, {"PRIVMSG"}, {}, FALSE),
      Matcher("action_command", "", "hello", {"hi"}, {"PRIVMSG"},
              {"VERSION"}, FALSE) }

MatchGenericRules ==
    { Matcher("rule", "", "any", {}, {"PRIVMSG"}, {}, FALSE),
      Matcher("rule", "", "any", {}, {"JOIN"}, {}, FALSE),
      Matcher("rule", "", "any", {}, {"PRIVMSG"}, {"VERSION"}, FALSE),
      Matcher("rule", "", "any", {}, {"PRIVMSG", "JOIN"}, {}, TRUE) }

\* How lines begin: with a command, without its prefix, with another prefix,
\* another word, a longer word, in capitals, addressed to the bot by its
\* nickname or an alias, with : or , or neither, to someone else, with the
\* prefix after the nickname, without whitespace after the nickname.
LineHeads ==
    { <<".", "hello">>, <<".", "hi">>, <<".", "bye">>, <<"hello">>, <<"hi">>,
      <<"bye">>, <<"?", "hello">>, <<".", "HELLO">>, <<".", "hello", "x">>,
      <<"TestBot", ":", " ", "hello">>, <<"AliasBot", ":", " ", "hello">>,
      <<"SupBot", ",", " ", " ", "hi">>, <<"TestBot", " ", "hello">>,
      <<"TestBot", ":", " ", ".", "hello">>, <<"TestBot", ":", " ", "bye">>,
      <<"Foo", ":", " ", "hello">>, <<"TestBot", ":", "hello">> }

\* Parameters from the n-th to the k-th, each after gap pieces of whitespace.
RECURSIVE ParameterText(_, _, _)
ParameterText(n, k, gap) ==
    IF n > k THEN <<>>
    ELSE [i \in 1..gap |-> " "] \o <<"p", ToString(n)>>
         \o ParameterText(n + 1, k, gap)

\* How lines end: with no to MaxParams parameters, one or two pieces of
\* whitespace before each, with or without whitespace at the end.
LineTails ==
    { ParameterText(1, k, gap) \o trailing :
        k \in 0..MaxParams, gap \in 1..2, trailing \in {<<>>, <<" ">>} }

Lines == { head \o tail : head \in LineHeads, tail \in LineTails }

\* A parsed line as match reads it: who sent it, the event, the intent tag
\* ("None" without), the text.
Parsed(nick, event, intent, text) ==
    [nick |-> nick, event |-> event, intent |-> intent, text |-> text]

ParsedLines ==
    { Parsed(nick, event, intent, text) :
        nick \in {"Foo", BotNick}, event \in {"PRIVMSG", "JOIN"},
        intent \in {"None", "ACTION", "VERSION"}, text \in Lines }

\* Rule.parse: the results of the patterns of the rule on the text; a
\* command has one pattern, the rules of the model match every text.
parse(rule, text) ==
    LET result ==
          CASE rule.kind = "command" ->
                   CommandParse(rule.prefix, Names(rule), text)
            [] rule.kind = "nick_command" ->
                   NickCommandParse(BotNicks, Names(rule), text)
            [] rule.kind = "action_command" ->
                   ActionCommandParse(Names(rule), text)
            [] OTHER ->
                   [matched |-> TRUE, word |-> Absent, rest |-> Absent,
                    params |-> <<Absent, Absent, Absent, Absent>>]
    IN  IF result.matched THEN <<result>> ELSE <<>>

match_event(rule, event) == event \in rule.events

\* Mutant: an action command asks its intent filters like any rule.
match_intent_filters(rule, intent) ==
    rule.intents = {} \/ intent \in rule.intents

\* match_intent: without filters every intent and none; with filters one of
\* them; an action command, ACTION and nothing else.
match_intent(rule, intent) ==
    IF rule.kind = "action_command" THEN intent = "ACTION"
    ELSE rule.intents = {} \/ intent \in rule.intents

\* Mutant: the messages of the bot are matched like any other.
match_preconditions_echo(rule, pre) ==
    match_event(rule, pre.event) /\ match_intent(rule, pre.intent)

\* What match asks before any pattern: the event, the intent, and that the
\* line is not the bot's own unless the rule allows echo.
match_preconditions(rule, pre) ==
    /\ match_event(rule, pre.event)
    /\ match_intent(rule, pre.intent)
    /\ (pre.nick # BotNick \/ rule.allow_echo)

\* Rule.match
match(rule, pre) ==
    IF match_preconditions(rule, pre) THEN parse(rule, pre.text) ELSE <<>>

\* All but the record of the last call.
AllButLast ==
    <<now, rules, config, metrics, times, pc, pretrigger, triggered, idx,
      blocked_rules, offers, local_running, execs, running, ndispatch, escaped,
      reported, uses, channels, registered, plugins, pending, bound, sent>>

\* A rule and a parsed line are chosen: nothing else is going on.
InitMatch ==
    /\ now = 0
    /\ rules = Registry
    /\ config = SpecConfig
    /\ metrics = [r \in DOMAIN Registry |-> EmptyMetrics]
    /\ uses = [r \in DOMAIN Registry |-> EmptyDict]
    /\ times = EmptyDict
    /\ pc = "idle"
    /\ pretrigger = NoEvent
    /\ triggered = <<>>
    /\ idx = 1
    /\ blocked_rules = {}
    /\ offers = <<>>
    /\ local_running = <<>>
    /\ execs = <<>>
    /\ running = <<>>
    /\ ndispatch = 0
    /\ escaped = "none"
    /\ reported = 0
    /\ channels = SpecChannels
    /\ registered = RegistryOrder
    /\ plugins = {"testplugin", "coretasks"}
    /\ pending = <<>>
    /\ bound = EmptyDict
    /\ sent = <<>>
    /\ \E rule \in MatchCommands \cup MatchNickCommands
                    \cup MatchActionCommands \cup MatchGenericRules,
          pre \in ParsedLines :
          last = [op |-> "input", rule |-> rule, pre |-> pre]

\* rule.match(bot, pretrigger) is called on the rule and the line chosen:
\* last keeps the call and its results.
Matching(kinds) ==
    /\ last.op = "input"
    /\ last.rule \in kinds
    /\ last' = [op |-> "match", rule |-> last.rule, pre |-> last.pre,
                results |-> match(last.rule, last.pre)]
    /\ UNCHANGED AllButLast

CommandMatch == Matching(MatchCommands)
NickCommandMatch == Matching(MatchNickCommands)
ActionCommandMatch == Matching(MatchActionCommands)
GenericRuleMatch == Matching(MatchGenericRules)

NextMatch ==
    \/ CommandMatch
    \/ NickCommandMatch
    \/ ActionCommandMatch
    \/ GenericRuleMatch

SpecMatch == InitMatch /\ [][NextMatch]_vars

\* The call last made was a match of a rule of this kind.
Matched(kind) == last.op = "match" /\ last.rule.kind = kind

\* The line is sent by someone else as a message, with this intent: nothing
\* but the text decides.
Plain(pre, intent) ==
    pre.nick # BotNick /\ pre.event = "PRIVMSG" /\ pre.intent = intent

\* str.split(): the words of a text.
RECURSIVE Words(_)
Words(text) ==
    LET from == SkipSpaces(text)
    IN  IF from = <<>> THEN <<>>
        ELSE <<TakeWord(from)>> \o Words(Drop(from, Len(TakeWord(from))))

\* C21: a Command with name n, aliases A and prefix p matches a line exactly
\* when the line begins with p, then at once n or a member of A, then ends
\* or goes on with whitespace; neither the word without the prefix nor the
\* prefix with another word or a longer word matches.
C21_CommandMatchesPrefixedName ==
    (Matched("command") /\ Plain(last.pre, "None")) =>
        LET text == last.pre.text
            begins == /\ Len(text) >= 2
                      /\ text[1] = last.rule.prefix
                      /\ Fold(text[2]) \in Names(last.rule)
                      /\ (Len(text) = 2 \/ IsSpace(text[3]))
        IN  /\ Len(last.results) = (IF begins THEN 1 ELSE 0)
            /\ begins => last.results[1].word = <<text[2]>>

\* .hi matched the command hello with alias hi; hello without prefix, .bye
\* and .hellox did not.
C21_Witness ==
    /\ Matched("command") /\ Plain(last.pre, "None")
    /\ last.rule.prefix = "."
    /\ last.pre.text = <<".", "hi">>
    /\ Len(last.results) = 1

C21_WitnessBare ==
    /\ Matched("command") /\ Plain(last.pre, "None")
    /\ last.rule.prefix = "."
    /\ last.pre.text \in {<<"hello">>, <<".", "bye">>, <<".", "hello", "x">>}
    /\ last.results = <<>>

\* The text with its first piece, the nickname it is addressed to, replaced.
AddressedTo(nick, text) == <<nick>> \o Tail(text)

\* C22: a NickCommand matches a line addressed to the nickname of the bot
\* and the same line addressed to any of its nickname aliases with the same
\* results, the command word the same; it has no result when the command
\* prefix stands between nickname and command word, when the word is neither
\* the name nor an alias, and when the line is addressed to someone else or
\* to nobody.
C22_NickCommandAnyNickname ==
    (Matched("nick_command") /\ Plain(last.pre, "None")) =>
        LET text == last.pre.text
            after == IF Len(text) > 1 /\ text[2] \in {":", ","}
                     THEN Drop(text, 2) ELSE Drop(text, 1)
            words == Words(after)
        IN  /\ text[1] \in BotNicks =>
                \A nick \in BotNicks :
                    match(last.rule,
                          [last.pre EXCEPT !.text = AddressedTo(nick, text)])
                        = last.results
            /\ text[1] \notin BotNicks => last.results = <<>>
            /\ (words # <<>> /\ words[1][1] = ".") => last.results = <<>>
            /\ (words # <<>> /\ Len(words[1]) = 1
                  /\ Fold(words[1][1]) \notin Names(last.rule))
                  => last.results = <<>>
            /\ ( /\ text[1] \in BotNicks
                 /\ after # <<>> /\ IsSpace(after[1])
                 /\ words # <<>> /\ Len(words[1]) = 1
                 /\ Fold(words[1][1]) \in Names(last.rule) )
                  => /\ Len(last.results) = 1
                     /\ last.results[1].word = words[1]

\* 'SupBot,  hi ...' matched the nick command hello with alias hi, the
\* command word hi.
C22_Witness ==
    /\ Matched("nick_command") /\ Plain(last.pre, "None")
    /\ last.pre.text[1] = "SupBot"
    /\ Len(last.results) = 1
    /\ last.results[1].word = <<"hi">>

\* 'TestBot: .hello', 'TestBot: bye', 'Foo: hello' and '.hello' did not match.
C22_WitnessNot ==
    /\ Matched("nick_command") /\ Plain(last.pre, "None")
    /\ last.pre.text \in { <<"TestBot", ":", " ", ".", "hello">>,
                           <<"TestBot", ":", " ", "bye">>,
                           <<"Foo", ":", " ", "hello">>, <<".", "hello">> }
    /\ last.results = <<>>

\* C23: an ActionCommand has results only for an event whose intent is
\* ACTION: for the same text with another intent or without intent it has
\* none, and the intent filters it was declared with change nothing.
C23_ActionCommandOnlyAction ==
    Matched("action_command") =>
        /\ last.pre.intent # "ACTION" => last.results = <<>>
        /\ ( /\ last.pre.intent = "ACTION"
             /\ last.pre.nick # BotNick /\ last.pre.event = "PRIVMSG" )
              => last.results = parse(last.rule, last.pre.text)
        /\ \A intents \in SUBSET {"ACTION", "VERSION"} :
              match([last.rule EXCEPT !.intents = intents], last.pre)
                  = last.results

\* The action command declared with the intent filter VERSION matched
\* 'hello' sent as an action.
C23_Witness ==
    /\ Matched("action_command")
    /\ last.rule.intents = {"VERSION"}
    /\ last.pre.intent = "ACTION"
    /\ last.pre.text = <<"hello">>
    /\ Len(last.results) = 1

\* The same text sent as VERSION and without intent did not match.
C23_WitnessOtherIntent ==
    /\ Matched("action_command")
    /\ last.pre.intent \in {"VERSION", "None"}
    /\ last.pre.text = <<"hello">>
    /\ Plain(last.pre, last.pre.intent)
    /\ last.results = <<>>

\* The text after the command word of a command, nick command or action
\* command that matched: what follows group 1.
AfterCommandWord(rule, text) ==
    CASE rule.kind = "command" -> Drop(text, 2)
      [] rule.kind = "nick_command" ->
           Tail(SkipSpaces(IF text[2] \in {":", ","} THEN Drop(text, 2)
                           ELSE Drop(text, 1)))
      [] OTHER -> Tail(text)

IsCommandKind(rule) ==
    rule.kind \in {"command", "nick_command", "action_command"}

\* Groups 1 and 3 to 6 of a match: the command word, and the first four
\* parameters of the line, absent where the line has fewer.
WordAndParameters(result, after) ==
    /\ result.word # Absent
    /\ \A i \in 1..4 :
          result.params[i] =
              (IF i <= Len(Words(after)) THEN Words(after)[i] ELSE Absent)

\* C24: the match of a Command, NickCommand or ActionCommand has the command
\* word as group 1, the whole rest of the line as group 2 and the first four
\* parameters as groups 3 to 6; for a line without parameter groups 2 to 6
\* are absent.
C24_GroupLayout ==
    (last.op = "match" /\ IsCommandKind(last.rule) /\ last.results # <<>>) =>
        LET result == last.results[1]
            after == AfterCommandWord(last.rule, last.pre.text)
        IN  /\ WordAndParameters(result, after)
            /\ result.rest = (IF Words(after) = <<>> THEN Absent
                              ELSE SkipSpaces(after))

\* The same, but for the line that ends with whitespace after the command
\* word: its group 2 is the empty text.
C24_GroupLayoutEmptyRest ==
    (last.op = "match" /\ IsCommandKind(last.rule) /\ last.results # <<>>) =>
        LET result == last.results[1]
            after == AfterCommandWord(last.rule, last.pre.text)
        IN  /\ WordAndParameters(result, after)
            /\ result.rest = (IF after = <<>> THEN Absent
                              ELSE SkipSpaces(after))

\* A nick command matched a line with five parameters: groups 3 to 6 are the
\* first four, group 2 is all five.
C24_Witness ==
    /\ Matched("nick_command")
    /\ last.pre.text = <<"TestBot", ":", " ", "hello">> \o ParameterText(1, 5, 2)
    /\ Len(last.results) = 1
    /\ last.results[1].params = << <<"p", "1">>, <<"p", "2">>, <<"p", "3">>, <<"p", "4">> >>
    /\ last.results[1].rest = Tail(Tail(ParameterText(1, 5, 2)))

\* A command matched the line without parameter: groups 2 to 6 are absent.
C24_WitnessNoParameter ==
    /\ Matched("command")
    /\ last.pre.text = <<".", "hello">>
    /\ Len(last.results) = 1
    /\ last.results[1].rest = Absent
    /\ last.results[1].params = <<Absent, Absent, Absent, Absent>>

\* The intent passes the rule: a rule without intent filter takes every
\* intent and none, a rule with filters takes the intents they name, an
\* action command takes ACTION.
IntentPasses(rule, intent) ==
    IF rule.kind = "action_command" THEN intent = "ACTION"
    ELSE rule.intents = {} \/ (intent # "None" /\ intent \in rule.intents)

\* C25: Rule.match has no result at all when the event is not one of the
\* events of the rule (PRIVMSG alone by default), when the intent of the
\* event does not pass match_intent, or when the line comes from the bot
\* itself and the rule does not allow echo; otherwise it has the results of
\* its patterns.
C25_MatchPreconditions ==
    last.op = "match" =>
        /\ last.pre.event \notin last.rule.events => last.results = <<>>
        /\ ~IntentPasses(last.rule, last.pre.intent) => last.results = <<>>
        /\ (last.pre.nick = BotNick /\ ~last.rule.allow_echo)
              => last.results = <<>>
        /\ ( /\ last.pre.event \in last.rule.events
             /\ IntentPasses(last.rule, last.pre.intent)
             /\ (last.pre.nick # BotNick \/ last.rule.allow_echo) )
              => last.results = parse(last.rule, last.pre.text)

\* The rule that matches every text had no result for a message of the bot
\* itself.
C25_Witness ==
    /\ Matched("rule")
    /\ last.rule.events = {"PRIVMSG"} /\ last.rule.intents = {}
    /\ ~last.rule.allow_echo
    /\ last.pre.nick = BotNick /\ last.pre.event = "PRIVMSG"
    /\ last.pre.intent = "None"
    /\ last.results = <<>>

\* It had none for a JOIN, and the rule with the filter VERSION had none for
\* a message without intent; the rule that allows echo matched a message of
\* the bot.
C25_WitnessEvent ==
    /\ Matched("rule")
    /\ last.rule.events = {"PRIVMSG"} /\ last.rule.intents = {}
    /\ last.pre.nick = "Foo" /\ last.pre.event = "JOIN"
    /\ last.results = <<>>

C25_WitnessIntent ==
    /\ Matched("rule")
    /\ last.rule.intents = {"VERSION"}
    /\ last.pre.nick = "Foo" /\ last.pre.event = "PRIVMSG"
    /\ last.pre.intent = "None"
    /\ last.results = <<>>

C25_WitnessEcho ==
    /\ Matched("rule")
    /\ last.rule.allow_echo
    /\ last.pre.nick = BotNick
    /\ Len(last.results) = 1

----------------------------------------------------------------------------
(* SpecLoad: plugins whose callables cannot all be made into rules *)

\* The callables of plugins D and E: rules, but for d2, a callable without
\* command name that is declared a command (Command.from_callable raises
\* RuntimeError), and e2, a lazy rule whose loader raises PluginError.
LoadRules ==
    [r \in {"d1", "d2", "d3", "e1", "e2", "e3"} |->
        CASE r = "d1" -> Rule("D", "d1", FALSE, FALSE, 0, 0, 0, <<{"x"}>>)
          [] r = "d2" -> [category |-> "command"]
                         @@ Rule("D", "d2", FALSE, FALSE, 0, 0, 0, <<{"x"}>>)
          [] r = "d3" -> Rule("D", "d3", FALSE, FALSE, 0, 0, 0, <<{"x", "y"}>>)
          [] r = "e1" -> Rule("E", "e1", FALSE, FALSE, 0, 0, 0, <<{"y"}>>)
          [] r = "e2" -> Rule("E", "e2", FALSE, FALSE, 0, 0, 0, <<{"y"}>>)
          [] r = "e3" -> Rule("E", "e3", FALSE, FALSE, 0, 0, 0, <<{"x", "y"}>>)]

LoadPlugins == {"D", "E"}

LoadCallables(plugin) ==
    CASE plugin = "D" -> <<"d1", "d2", "d3">>
      [] plugin = "E" -> <<"e1", "e2", "e3">>

\* What making a rule of the callable raises: "none", the PluginError of a
\* lazy loader, or the RuntimeError of from_callable.
FromCallable(r) ==
    CASE r = "d2" -> "RuntimeError"
      [] r = "e2" -> "PluginError"
      [] OTHER -> "none"

LoadEvents ==
    { Event("Foo", "example.com", "#chan", "x"),
      Event("Foo", "example.com", "#chan", "y") }

InitLoad ==
    /\ AtRest
    /\ rules = LoadRules
    /\ config = EmptyDict
    /\ metrics = [r \in DOMAIN LoadRules |-> EmptyMetrics]
    /\ uses = [r \in DOMAIN LoadRules |-> EmptyDict]
    /\ registered = <<>>
    /\ plugins = {}
    /\ channels = SpecChannels

\* What loading a plugin leaves alone.
AllButLoad ==
    <<now, rules, config, times, pc, pretrigger, triggered, idx,
      blocked_rules, offers, local_running, execs, running, ndispatch,
      escaped, reported, uses, channels, bound, sent>>

\* setup_plugins registers a plugin, which calls add_plugin: the plugin is in
\* the registry of plugins, its callables are still to be registered.
SetupPlugin(plugin) ==
    /\ pending = <<>>
    /\ ~has_plugin(plugin)
    /\ plugins' = plugins \cup {plugin}
    /\ pending' = LoadCallables(plugin)
    /\ last' = [op |-> "setup", plugin |-> plugin]
    /\ UNCHANGED <<registered, metrics>>
    /\ UNCHANGED AllButLoad

\* One turn of the loop of register_callables for a callable a rule is made
\* of.
RegisterLoaded ==
    /\ pending # <<>>
    /\ FromCallable(Head(pending)) = "none"
    /\ RegisterCallable

\* One turn for a lazy rule whose loader raises PluginError: the error is
\* logged inside the loop, which goes on with the next callable.
RegisterLazyRaises ==
    /\ pending # <<>>
    /\ FromCallable(Head(pending)) = "PluginError"
    /\ pending' = Tail(pending)
    /\ last' = [op |-> "cannot_register", callable |-> Head(pending)]
    /\ UNCHANGED <<registered, plugins, metrics>>
    /\ UNCHANGED AllButLoad

\* One turn for a callable whose from_callable raises: nothing in
\* register_callables or add_plugin catches the error, it leaves both and is
\* caught and logged by setup_plugins, which goes on with the next plugin.
\* The callables that were still to come are dropped with the loop.
RegisterRaises ==
    /\ pending # <<>>
    /\ FromCallable(Head(pending)) = "RuntimeError"
    /\ pending' = <<>>
    /\ last' = [op |-> "load_error", callable |-> Head(pending)]
    /\ UNCHANGED <<registered, plugins, metrics>>
    /\ UNCHANGED AllButLoad

\* get_triggered_rules is called for a message once the plugins are loaded.
LoadQuery(pre) ==
    /\ pending = <<>>
    /\ GetTriggeredRules(pre)

NextLoad ==
    \/ \E plugin \in LoadPlugins : SetupPlugin(plugin)
    \/ RegisterLoaded
    \/ RegisterLazyRaises
    \/ RegisterRaises
    \/ \E plugin \in LoadPlugins : RemovePlugin(plugin)
    \/ \E pre \in LoadEvents : LoadQuery(pre)

SpecLoad == InitLoad /\ [][NextLoad]_vars

\* The callables of a plugin from which a rule can be made.
Registrable(plugin) ==
    { r \in Elements(LoadCallables(plugin)) : FromCallable(r) = "none" }

\* The callables listed before the first one that cannot be made a rule.
ListedBefore(plugin) ==
    { LoadCallables(plugin)[i] : i \in
        { i \in DOMAIN LoadCallables(plugin) :
            \A j \in 1..i : FromCallable(LoadCallables(plugin)[j]) = "none" } }

C26_ListedBeforeRegistered ==
    /\ pending = <<>> =>
         \A plugin \in plugins :
             \A r \in ListedBefore(plugin) : IsRegistered(registered, r)
    /\ \A r \in DOMAIN LoadRules :
         FromCallable(r) # "none" => ~IsRegistered(registered, r)
    /\ (pending = <<>> /\ has_plugin("E")) =>
         \A r \in Registrable("E") : IsRegistered(registered, r)

\* Plugin D was loaded, its second callable raised: d1 is registered, d3 is
\* not, and the manager answers for a message.
C26_Witness ==
    /\ pending = <<>>
    /\ has_plugin("D")
    /\ IsRegistered(registered, "d1")
    /\ ~IsRegistered(registered, "d3")
    /\ pretrigger # NoEvent

\* Plugin E was set up after the error of plugin D.
C26_WitnessGoesOn ==
    /\ pending = <<>>
    /\ has_plugin("D") /\ has_plugin("E")
    /\ ~IsRegistered(registered, "d3")
    /\ IsRegistered(registered, "e1") /\ IsRegistered(registered, "e3")
    /\ Len(registered) > 0 /\ registered[1] = "d1"

----------------------------------------------------------------------------
(* SpecMalformed: dispatch in a channel whose section cannot be read *)

\* The section of #chan sets disable_commands to a value literal_eval cannot
\* parse; it sets no disable_plugins.
MalformedConfig == ("#chan" :> Section(FALSE, <<>>, "malformed", EmptyDict))

InitMalformed ==
    /\ AtRest
    /\ rules = Registry
    /\ config = MalformedConfig
    /\ metrics = [r \in DOMAIN Registry |-> EmptyMetrics]
    /\ uses = [r \in DOMAIN Registry |-> EmptyDict]
    /\ registered = RegistryOrder
    /\ plugins = {"testplugin", "coretasks"}
    /\ channels = SpecChannels

SpecMalformed == InitMalformed /\ [][Next]_vars

\* The invocations of call_rule that met the section that cannot be read.
MetMalformed == { e \in 1..Len(execs) : execs[e].result = "config_error" }

\* C27: a disable_commands value that cannot be parsed is taken as no
\* disablement: no error of it leaves call_rule or dispatch, and the rule it
\* was read for and the rules after it in the dispatch call are executed.
C27_MalformedNotApplied ==
    /\ MetMalformed = {}
    /\ escaped # "error"

\* What holds of the code: the error of the section leaves dispatch exactly
\* when the rule is called directly, and then no later entry of the list is
\* offered; in a thread it ends the thread alone.
C27_MalformedLeavesDispatch ==
    /\ escaped = "error" <=>
          \E e \in MetMalformed : ~execs[e].threaded
    /\ \A e \in MetMalformed :
          (~execs[e].threaded /\ execs[e].disp = ndispatch /\ pc = "raised")
              => \A f \in 1..Len(execs) :
                    execs[f].disp = ndispatch => execs[f].idx <= execs[e].idx

\* The rule log, first of three entries for the message, met the section:
\* dispatch is left with the error and the two entries of greet were never
\* offered.
C27_Witness ==
    /\ pc = "raised" /\ escaped = "error"
    /\ Len(triggered) = 3
    /\ \E e \in MetMalformed :
          /\ execs[e].rule = "log" /\ execs[e].idx = 1
          /\ execs[e].disp = ndispatch
    /\ \A f \in 1..Len(execs) : execs[f].disp = ndispatch => execs[f].idx = 1

\* The thread of greet met the section and the loop went on.
C27_WitnessThread ==
    /\ \E e \in MetMalformed : execs[e].threaded /\ execs[e].disp = ndispatch
    /\ escaped = "none"

----------------------------------------------------------------------------
(* SpecBlock: the blocklists asked about a nick and a host *)

\* The nicks and hosts asked about: the nick of the blocklist in three
\* spellings, a nick that is a pattern of the host blocklist, no nick (a
\* message of the server); the hosts of the blocklist in both cases, a host
\* one label short of the pattern, a host that is a pattern of the nick
\* blocklist.
BlockNicks == {"Foo", "Bad", "BAD", "bad", "evil.host", ""}
BlockHosts == {"example.com", "evil.host", "EVIL.HOST", "a.spam.net",
               "A.SPAM.NET", "spam.net", "bad", ""}

InitBlock ==
    /\ now = 0
    /\ rules = Registry
    /\ config = SpecConfig
    /\ metrics = [r \in DOMAIN Registry |-> EmptyMetrics]
    /\ times = EmptyDict
    /\ pc = "idle"
    /\ pretrigger = NoEvent
    /\ triggered = <<>>
    /\ idx = 1
    /\ blocked_rules = {}
    /\ offers = <<>>
    /\ local_running = <<>>
    /\ execs = <<>>
    /\ running = <<>>
    /\ ndispatch = 0
    /\ escaped = "none"
    /\ reported = 0
    /\ uses = [r \in DOMAIN Registry |-> EmptyDict]
    /\ \E nick \in BlockNicks, host \in BlockHosts, sender \in {"#chan", "Foo"} :
          last = [op |-> "input", pre |-> Event(nick, host, sender, "a")]
    /\ channels = SpecChannels
    /\ registered = RegistryOrder
    /\ plugins = {"testplugin", "coretasks"}
    /\ pending = <<>>
    /\ bound = EmptyDict
    /\ sent = <<>>

\* The first lines of dispatch: the two answers of _is_pretrigger_blocked and
\* blocked.
IsPretriggerBlocked ==
    /\ last.op = "input"
    /\ last' = [op |-> "blocked", pre |-> last.pre,
                nick_blocked |-> is_pretrigger_blocked(last.pre)[1],
                host_blocked |-> is_pretrigger_blocked(last.pre)[2],
                blocked |-> Blocked(last.pre)]
    /\ UNCHANGED AllButLast

NextBlock == IsPretriggerBlocked

SpecBlock == InitBlock /\ [][NextBlock]_vars

\* The nicks and the hosts among those asked about that match a pattern of
\* their blocklist which is not blank, case set aside.
MatchingNicks == {"Bad", "BAD", "bad"}
MatchingHosts == {"evil.host", "EVIL.HOST", "a.spam.net", "A.SPAM.NET"}

\* C28: the nick is blocked exactly when it matches, case set aside, a
\* pattern of the nick blocklist that is not blank, whatever the host; the
\* host is blocked exactly when it matches such a pattern of the host
\* blocklist, whatever the nick; the event is blocked exactly when one of the
\* two is.
C28_BlockedIsNickOrHost ==
    last.op = "blocked" =>
        /\ last.nick_blocked <=> last.pre.nick \in MatchingNicks
        /\ last.host_blocked <=> last.pre.host \in MatchingHosts
        /\ last.blocked <=> (last.nick_blocked \/ last.host_blocked)
        /\ last.blocked <=> ( \/ last.pre.nick \in MatchingNicks
                              \/ last.pre.host \in MatchingHosts )

\* A host written in capitals matched the pattern in small letters: the event
\* is blocked by its host alone.
C28_Witness ==
    /\ last.op = "blocked"
    /\ last.pre.nick = "Foo" /\ last.pre.host = "EVIL.HOST"
    /\ ~last.nick_blocked /\ last.host_blocked /\ last.blocked

\* Blocked by the nick alone; and not blocked, although the nick is a pattern
\* of the host blocklist, the host one of the nick blocklist; and not
\* blocked by the blank pattern, the nick being empty.
C28_WitnessNick ==
    /\ last.op = "blocked"
    /\ last.pre.nick = "bad" /\ last.pre.host = "example.com"
    /\ last.nick_blocked /\ ~last.host_blocked /\ last.blocked

C28_WitnessCrossed ==
    /\ last.op = "blocked"
    /\ last.pre.nick = "evil.host" /\ last.pre.host = "bad"
    /\ ~last.blocked

C28_WitnessBlank ==
    /\ last.op = "blocked"
    /\ last.pre.nick = "" /\ last.pre.host = ""
    /\ ~last.blocked

----------------------------------------------------------------------------
(* SpecNotice: call_rule for rules that have messages for their limits *)

\* The option that holds the message of a limit.
MessageOption(kind) ==
    CASE kind = "user" -> "user_rate_message"
      [] kind = "channel" -> "channel_rate_message"
      [] kind = "global" -> "global_rate_message"

\* The messages a rule is declared with, for the limits in kinds.
RateMessages(kinds) ==
    [option \in { MessageOption(kind) : kind \in kinds } |->
        CASE option = "user_rate_message" -> "Wait, user"
          [] option = "channel_rate_message" -> "Wait, channel"
          [] option = "global_rate_message" -> "Wait, everyone"]

\* The windows (user, channel, global) and the limits with a message.
NoticeWindows == { <<1, 0, 0>>, <<1, 1, 1>>, <<0, 1, 1>> }
NoticeKinds == { {"user", "channel", "global"}, {"channel", "global"}, {} }

NoticeRules ==
    { RateMessages(kinds)
      @@ Rule("testplugin", "hello", TRUE, FALSE, w[1], w[2], w[3], <<{"a"}>>) :
        w \in NoticeWindows, kinds \in NoticeKinds }
    \cup { RateMessages({"user", "channel", "global"})
           @@ Rule("testplugin", "hello", TRUE, TRUE, 1, 1, 1, <<{"a"}>>) }

\* Who sends the triggers: two users and an admin.
NoticeNicks == {"Foo", "Bar", "Adm"}

InitNotice ==
    /\ now = 0
    /\ \E rule \in NoticeRules : rules = (TheRule :> rule)
    /\ config = EmptyDict
    /\ metrics = (TheRule :> EmptyMetrics)
    /\ times = EmptyDict
    /\ pc = "idle"
    /\ pretrigger = NoEvent
    /\ triggered = <<>>
    /\ idx = 1
    /\ blocked_rules = {}
    /\ offers = <<>>
    /\ local_running = <<>>
    /\ execs = <<>>
    /\ running = <<>>
    /\ ndispatch = 0
    /\ escaped = "none"
    /\ reported = 0
    /\ uses = (TheRule :> EmptyDict)
    /\ last = CallOf("rule", "none", "None", "None", "none", "none")
    /\ channels = SpecChannels
    /\ registered = <<TheRule>>
    /\ plugins = {"testplugin"}
    /\ pending = <<>>
    /\ bound = EmptyDict
    /\ sent = <<>>

\* The handler returns at once, a value or the sentinel.
NextNotice ==
    \/ \E nick \in NoticeNicks, outcome \in {"ok", "nolimit"} :
         \E sender \in CallSenders(nick) : CallRule(nick, sender, outcome, 0)
    \/ TickCall

SpecNotice == InitNotice /\ [][NextNotice]_vars

\* The first limit exceeded for a trigger of nick in sender, in the order
\* user, channel (in a channel only), global; "none" when none is, or when
\* the limits are not consulted, for an admin or a rule that is unblockable.
FirstExceeded(rule, m, nick, sender, t) ==
    IF TriggerAdmin(nick) \/ is_unblockable(rule) THEN "none"
    ELSE IF is_user_rate_limited(rule, m, nick, t) THEN "user"
    ELSE IF IsChannel(sender) /\ is_channel_rate_limited(rule, m, sender, t)
         THEN "channel"
    ELSE IF is_global_rate_limited(rule, m, t) THEN "global"
    ELSE "none"

\* The notice of a limit, for the nick.
NoticeOf(rule, kind, nick) ==
    Line("NOTICE", nick, <<rule[MessageOption(kind)]>>)

\* C29: a call of call_rule sends at most one notice for the limits; it sends
\* one exactly when a limit is exceeded and the first exceeded, in the order
\* user, channel (for a trigger in a channel), global, has a message; the
\* notice is that message and it goes to the nick of the trigger, not to the
\* channel.
C29_OneNoticeOfFirstLimit ==
    [][ last'.op = "call_rule" =>
          LET rule == rules[TheRule]
              first == FirstExceeded(rule, metrics[TheRule], last'.nick,
                                     last'.sender, now)
          IN /\ first # "none" <=> last'.decision \in RateLimitedDecisions
             /\ IF first # "none" /\ MessageOption(first) \in DOMAIN rule
                THEN sent' = Append(sent, NoticeOf(rule, first, last'.nick))
                ELSE sent' = sent ]_vars

\* In the channel, the user and the channel limit both exceeded, the notice
\* sent was the message of the user limit, to the nick.
C29_Witness ==
    /\ last.op = "call_rule" /\ last.decision = "user_limited"
    /\ last.sender = "#chan"
    /\ is_channel_rate_limited(rules[TheRule], metrics[TheRule], "#chan", now)
    /\ is_global_rate_limited(rules[TheRule], metrics[TheRule], now)
    /\ sent = <<Line("NOTICE", last.nick, <<"Wait, user">>)>>

\* The channel limit was the first exceeded, for another user: its message
\* was sent to that user.
C29_WitnessChannel ==
    /\ last.op = "call_rule" /\ last.decision = "channel_limited"
    /\ rules[TheRule].user_rate = 1
    /\ sent = <<Line("NOTICE", last.nick, <<"Wait, channel">>)>>

\* In a private message the global limit was the first exceeded although the
\* channel limit is exceeded in the channel.
C29_WitnessGlobal ==
    /\ last.op = "call_rule" /\ last.decision = "global_limited"
    /\ IsPrivmsg(last.sender)
    /\ is_channel_rate_limited(rules[TheRule], metrics[TheRule], "#chan", now)
    /\ sent = <<Line("NOTICE", last.nick, <<"Wait, everyone">>)>>

\* The user limit was exceeded and has no message: nothing was sent, although
\* the channel limit, exceeded too, has one.
C29_WitnessSilent ==
    /\ last.op = "call_rule" /\ last.decision = "user_limited"
    /\ last.sender = "#chan"
    /\ is_channel_rate_limited(rules[TheRule], metrics[TheRule], "#chan", now)
    /\ get_channel_rate_message(rules[TheRule]) # ""
    /\ sent = <<>>

----------------------------------------------------------------------------
(* Claims on where call_rule takes its decision (Spec) *)

\* How call_rule ends when it does not reach rule.execute.
GatedResults == RateLimitedDecisions \cup {"disabled", "config_error"}

\* C30: the rate limits and the channel section are consulted by the thread
\* that runs dispatch before a thread is started for a rule, and a thread is
\* started only for a rule they let through: no thread ends for a limit or a
\* disablement.
C30_ThreadsPassedGating ==
    \A e \in 1..Len(execs) :
        execs[e].threaded => execs[e].result \notin GatedResults

\* What holds of the code: of the checks, dispatch makes the one of the
\* blocklist before it starts a thread, so no thread exists for an entry the
\* blocklist suppressed; the limits are consulted by call_rule, in the thread.
C30_BlocklistBeforeSpawn ==
    \A e \in Current :
        /\ execs[e].idx <= Len(offers)
        /\ offers[execs[e].idx] # "blocked"
        /\ execs[e].threaded <=> offers[execs[e].idx] = "thread"

\* A thread was started for greet and found the user limited.
C30_Witness ==
    \E e \in Current :
        /\ execs[e].threaded /\ execs[e].rule = "greet"
        /\ execs[e].result = "user_limited"

\* The loop of dispatch is over and the thread it started has not consulted
\* the limits yet.
C30_WitnessNotYetGated ==
    /\ pc = "idle"
    /\ \E e \in 1..Len(execs) : execs[e].threaded /\ execs[e].pc = "spawned"

----------------------------------------------------------------------------
(* Claims on the tracked threads when dispatch returns (SpecReplay) *)

\* The tracked list holds no thread that has ended.
TrackedAlive == \A i \in 1..Len(running) : is_alive(running[i])

\* C31: every dispatch call that returns, the one that drops a replayed
\* message included, leaves no finished thread in the tracked list.
C31_PrunedOnEveryDispatch ==
    [][ ( /\ pc' = "idle"
          /\ pc = "loop" \/ (pc = "idle" /\ pretrigger' # pretrigger) )
        => TrackedAlive' ]_vars

\* What holds of the code: a call that reaches the end of its loop prunes the
\* list; a call that drops a replayed message leaves the list as it was.
C31_PrunedAfterLoop ==
    [][ /\ (pc = "loop" /\ pc' = "idle") => TrackedAlive'
        /\ (pc = "idle" /\ pc' = "idle") => running' = running ]_vars

\* A replayed message was dropped and a thread that has ended is still in the
\* tracked list.
C31_Witness ==
    /\ pc = "idle"
    /\ "time" \in DOMAIN pretrigger
    /\ \E i \in 1..Len(running) : ~is_alive(running[i])

----------------------------------------------------------------------------
(* SpecTrack: dispatch calls on several threads update the tracked list *)

\* The threads that run dispatch, when the transport delivers concurrently.
Dispatchers == {1, 2}
NoHolder == 0

\* One dispatch call: where it is ("loop", "locked", "read", "done"), its
\* local running_triggers, and the list it built under the lock.
TrackCall(at, new, tmp) == [pc |-> at, new |-> new, tmp |-> tmp]

\* The holder of _running_triggers_lock and the dispatch calls.
Tracking(lock, calls) == [op |-> "track", lock |-> lock, calls |-> calls]

\* A thread started on call_rule by the dispatch call of dispatcher d.
TrackThread(d) == [disp |-> d, threaded |-> TRUE, pc |-> "handler"]

InitTrack ==
    /\ now = 0
    /\ rules = Registry
    /\ config = EmptyDict
    /\ metrics = [r \in DOMAIN Registry |-> EmptyMetrics]
    /\ times = EmptyDict
    /\ pc = "idle"
    /\ pretrigger = NoEvent
    /\ triggered = <<>>
    /\ idx = 1
    /\ blocked_rules = {}
    /\ offers = <<>>
    /\ local_running = <<>>
    /\ execs = <<>>
    /\ running = <<>>
    /\ ndispatch = 0
    /\ escaped = "none"
    /\ reported = 0
    /\ uses = [r \in DOMAIN Registry |-> EmptyDict]
    /\ last = Tracking(NoHolder,
                       [d \in Dispatchers |-> TrackCall("loop", <<>>, <<>>)])
    /\ channels = SpecChannels
    /\ registered = RegistryOrder
    /\ plugins = {"testplugin", "coretasks"}
    /\ pending = <<>>
    /\ bound = EmptyDict
    /\ sent = <<>>

\* What the tracking of threads leaves alone.
AllButTrack ==
    <<now, rules, config, metrics, times, pc, pretrigger, triggered, idx,
      blocked_rules, offers, local_running, ndispatch, escaped, reported,
      uses, channels, registered, plugins, pending, bound, sent>>

\* The loop of dispatch starts a thread and appends it to its local list.
TrackSpawn(d) ==
    /\ last.calls[d].pc = "loop"
    /\ Len(execs) < MaxExecs
    /\ execs' = Append(execs, TrackThread(d))
    /\ last' = [last EXCEPT !.calls[d].new = Append(@, Len(execs) + 1)]
    /\ UNCHANGED running
    /\ UNCHANGED AllButTrack

\* call_rule returns in its thread: the thread is no longer alive.
TrackThreadEnd(e) ==
    /\ execs[e].pc = "handler"
    /\ execs' = [execs EXCEPT ![e].pc = "done"]
    /\ UNCHANGED <<running, last>>
    /\ UNCHANGED AllButTrack

\* Mutant: the lock is entered although another thread holds it.
TrackAcquireNoLock(d) ==
    /\ last.calls[d].pc = "loop"
    /\ last' = [last EXCEPT !.lock = d, !.calls[d].pc = "locked"]
    /\ UNCHANGED <<execs, running>>
    /\ UNCHANGED AllButTrack

\* The loop is over and _update_running_triggers enters the lock, which it
\* can when no thread holds it.
TrackAcquire(d) ==
    /\ last.calls[d].pc = "loop"
    /\ last.lock = NoHolder
    /\ last' = [last EXCEPT !.lock = d, !.calls[d].pc = "locked"]
    /\ UNCHANGED <<execs, running>>
    /\ UNCHANGED AllButTrack

\* running_triggers = running_triggers + self._running_triggers
TrackRead(d) ==
    /\ last.calls[d].pc = "locked"
    /\ last' = [last EXCEPT !.calls[d].pc = "read",
                            !.calls[d].tmp = last.calls[d].new \o running]
    /\ UNCHANGED <<execs, running>>
    /\ UNCHANGED AllButTrack

\* self._running_triggers = [t for t in running_triggers if t.is_alive()],
\* and the lock is left; dispatch returns.
TrackWrite(d) ==
    /\ last.calls[d].pc = "read"
    /\ running' = SelectSeq(last.calls[d].tmp, is_alive)
    /\ last' = [last EXCEPT !.lock = NoHolder, !.calls[d].pc = "done"]
    /\ UNCHANGED execs
    /\ UNCHANGED AllButTrack

\* The dispatcher is given the next message: a new dispatch call.
TrackDispatch(d) ==
    /\ last.calls[d].pc = "done"
    /\ last' = [last EXCEPT !.calls[d] = TrackCall("loop", <<>>, <<>>)]
    /\ UNCHANGED <<execs, running>>
    /\ UNCHANGED AllButTrack

NextTrack ==
    \/ \E d \in Dispatchers : TrackSpawn(d)
    \/ \E e \in 1..Len(execs) : TrackThreadEnd(e)
    \/ \E d \in Dispatchers : TrackAcquire(d)
    \/ \E d \in Dispatchers : TrackRead(d)
    \/ \E d \in Dispatchers : TrackWrite(d)
    \/ \E d \in Dispatchers : TrackDispatch(d)

SpecTrack == InitTrack /\ [][NextTrack]_vars

\* The thread is still in the local list of a dispatch call that has not
\* returned.
NotYetHandedOver(e) ==
    \E d \in Dispatchers :
        last.calls[d].pc # "done" /\ InSeq(e, last.calls[d].new)

\* C32: the tracked list is read and replaced under the one lock: no two
\* dispatch calls are between the read and the write at once, every thread
\* that is alive and was started by a dispatch call that has returned is in
\* the tracked list, and no thread is in it twice.
C32_NoLostUpdate ==
    /\ \A d1, d2 \in Dispatchers :
          ( /\ last.calls[d1].pc \in {"locked", "read"}
            /\ last.calls[d2].pc \in {"locked", "read"} ) => d1 = d2
    /\ \A e \in 1..Len(execs) :
          is_alive(e) => NotYetHandedOver(e) \/ InSeq(e, running)
    /\ \A i, j \in 1..Len(running) : running[i] = running[j] => i = j

\* Both dispatch calls have returned, each had started a thread that is alive
\* and both threads are tracked.
C32_Witness ==
    /\ \A d \in Dispatchers : last.calls[d].pc = "done"
    /\ \A d \in Dispatchers :
          \E i \in 1..Len(running) :
              execs[running[i]].disp = d /\ is_alive(running[i])

\* One call waits for the lock while the other is between its read and its
\* write.
C32_WitnessContended ==
    \E d1, d2 \in Dispatchers :
        /\ last.calls[d1].pc = "read" /\ last.calls[d1].new # <<>>
        /\ last.calls[d2].pc = "loop" /\ last.calls[d2].new # <<>>

----------------------------------------------------------------------------
(* Claims on the context a rule executes in (Spec) *)

\* What sopel_wrapper bound for invocation e.
OwnBinding(e) ==
    [trigger |-> TriggerOf(execs[e].nick, execs[e].sender),
     rule |-> execs[e].rule]


C33_WitnessThreads ==
    /\ BoundIn(bound, MainContext) = Unbound
    /\ \E e, f \in 1..Len(execs) :
          /\ e # f
          /\ execs[e].pc = "handler" /\ execs[e].threaded
          /\ execs[f].pc = "handler" /\ execs[f].threaded

----------------------------------------------------------------------------
(* SpecBind: bind_trigger, bind_rule and sopel_wrapper called in any order *)

\* bot.trigger and bot.rule when nothing is bound.
NoTrigger == Unbound.trigger
NoRule == Unbound.rule

\* The context variables of ctx with one of them set; a context whose two
\* variables are unset is as a context never written.
WithBinding(b, ctx, binding) ==
    IF binding = Unbound THEN Unbind(b, ctx) ELSE (ctx :> binding) @@ b

\* What a bind does: it raises RuntimeError and leaves the context alone, or
\* it sets the variable.
BindRaises(b) == [raised |-> TRUE, bound |-> b]
BindSets(b) == [raised |-> FALSE, bound |-> b]

\* Mutant: the trigger is bound over the one that is there.
bind_trigger_over(b, ctx, trigger) ==
    BindSets(WithBinding(b, ctx, [BoundIn(b, ctx) EXCEPT !.trigger = trigger]))

bind_trigger(b, ctx, trigger) ==
    IF BoundIn(b, ctx).trigger # NoTrigger THEN BindRaises(b)
    ELSE BindSets(WithBinding(b, ctx, [BoundIn(b, ctx) EXCEPT !.trigger = trigger]))

bind_rule(b, ctx, rule) ==
    IF BoundIn(b, ctx).rule # NoRule THEN BindRaises(b)
    ELSE BindSets(WithBinding(b, ctx, [BoundIn(b, ctx) EXCEPT !.rule = rule]))

\* ContextVar.reset(token): the variable is as it was before the set that
\* made the token, and a bind sets a variable that is unset only.
unbind_trigger(b, ctx) ==
    WithBinding(b, ctx, [BoundIn(b, ctx) EXCEPT !.trigger = NoTrigger])
unbind_rule(b, ctx) ==
    WithBinding(b, ctx, [BoundIn(b, ctx) EXCEPT !.rule = NoRule])

\* sopel_wrapper up to its yield: bind_trigger, then bind_rule; the try whose
\* finally unbinds begins after both.
sopel_wrapper_enter(b, ctx, trigger, rule) ==
    IF bind_trigger(b, ctx, trigger).raised THEN BindRaises(b)
    ELSE IF bind_rule(bind_trigger(b, ctx, trigger).bound, ctx, rule).raised
         THEN BindRaises(bind_trigger(b, ctx, trigger).bound)
    ELSE bind_rule(bind_trigger(b, ctx, trigger).bound, ctx, rule)

\* The last call on the bot: what was bound before it, whether it raised, and
\* the tokens the callers hold.
BindCall(op, before, raised, tokens) ==
    [op |-> op, before |-> before, raised |-> raised, tokens |-> tokens]

BindTriggers ==
    { TriggerOf("Foo", "#chan"), TriggerOf("Bar", "#chan"), TriggerOf("Bar", "Bar") }
BindRules == { "greet", "track" }

InitBind ==
    /\ now = 0
    /\ rules = Registry
    /\ config = EmptyDict
    /\ metrics = [r \in DOMAIN Registry |-> EmptyMetrics]
    /\ times = EmptyDict
    /\ pc = "idle"
    /\ pretrigger = NoEvent
    /\ triggered = <<>>
    /\ idx = 1
    /\ blocked_rules = {}
    /\ offers = <<>>
    /\ local_running = <<>>
    /\ execs = <<>>
    /\ running = <<>>
    /\ ndispatch = 0
    /\ escaped = "none"
    /\ reported = 0
    /\ uses = [r \in DOMAIN Registry |-> EmptyDict]
    /\ last = BindCall("none", Unbound, FALSE, {})
    /\ channels = SpecChannels
    /\ registered = RegistryOrder
    /\ plugins = {"testplugin", "coretasks"}
    /\ pending = <<>>
    /\ bound = EmptyDict
    /\ sent = <<>>

\* A call that binds: the context is what the call left, and the caller holds
\* the token when the call returned one.
Binding(op, res, token) ==
    /\ bound' = res.bound
    /\ last' = BindCall(op, BoundIn(bound, MainContext), res.raised,
                        IF res.raised THEN last.tokens
                        ELSE last.tokens \cup {token})
    /\ UNCHANGED sent
    /\ UNCHANGED AllButSending

\* A call that unbinds with a token the caller holds.
Unbinding(op, b, token) ==
    /\ token \in last.tokens
    /\ bound' = b
    /\ last' = BindCall(op, BoundIn(bound, MainContext), FALSE,
                        last.tokens \ {token})
    /\ UNCHANGED sent
    /\ UNCHANGED AllButSending

BindTrigger(trigger) ==
    Binding("bind_trigger", bind_trigger(bound, MainContext, trigger), "trigger")

BindRule(rule) ==
    Binding("bind_rule", bind_rule(bound, MainContext, rule), "rule")

UnbindTrigger ==
    Unbinding("unbind_trigger", unbind_trigger(bound, MainContext), "trigger")

UnbindRule ==
    Unbinding("unbind_rule", unbind_rule(bound, MainContext), "rule")

\* with bot.sopel_wrapper(trigger, rule): entered, or left by RuntimeError.
SopelWrapperEnter(trigger, rule) ==
    Binding("sopel_wrapper",
            sopel_wrapper_enter(bound, MainContext, trigger, rule), "wrapper")

\* The with block is left: the finally clause unbinds both.
SopelWrapperExit ==
    Unbinding("sopel_wrapper_exit",
              unbind_rule(unbind_trigger(bound, MainContext), MainContext),
              "wrapper")

NextBind ==
    \/ \E trigger \in BindTriggers : BindTrigger(trigger)
    \/ \E rule \in BindRules : BindRule(rule)
    \/ UnbindTrigger
    \/ UnbindRule
    \/ \E trigger \in BindTriggers, rule \in BindRules :
         SopelWrapperEnter(trigger, rule)
    \/ SopelWrapperExit

SpecBind == InitBind /\ [][NextBind]_vars

\* The context the calls of SpecBind are made in.
NowBound == BoundIn(bound, MainContext)

\* C34: bind_trigger raises RuntimeError exactly when a trigger is bound in
\* the context, bind_rule exactly when a rule is, and a call that raised left
\* the context as it was; a call that returned bound its own variable and
\* left the other alone; unbinding with the token of the bind leaves the
\* variable unbound.
C34_BindRaisesWhenBound ==
    /\ last.op = "bind_trigger" =>
          /\ last.raised <=> last.before.trigger # NoTrigger
          /\ last.raised => NowBound = last.before
          /\ ~last.raised => ( /\ NowBound.trigger \in BindTriggers
                               /\ NowBound.rule = last.before.rule )
    /\ last.op = "bind_rule" =>
          /\ last.raised <=> last.before.rule # NoRule
          /\ last.raised => NowBound = last.before
          /\ ~last.raised => ( /\ NowBound.rule \in BindRules
                               /\ NowBound.trigger = last.before.trigger )
    /\ last.op = "unbind_trigger" =>
          NowBound = [last.before EXCEPT !.trigger = NoTrigger]
    /\ last.op = "unbind_rule" =>
          NowBound = [last.before EXCEPT !.rule = NoRule]
    /\ (last.op = "unbind_rule" /\ last.before.trigger = NoTrigger)
          => bound = EmptyDict

\* bind_trigger was called on a bot bound to a trigger: it raised and the
\* trigger is the one that was bound.
C34_Witness ==
    /\ last.op = "bind_trigger" /\ last.raised
    /\ NowBound.trigger = TriggerOf("Foo", "#chan")
    /\ "trigger" \in last.tokens

C34_WitnessRule ==
    /\ last.op = "bind_rule" /\ last.raised
    /\ NowBound.rule = "greet"

\* The trigger was unbound with its token: the bot is unbound.
C34_WitnessUnbound ==
    /\ last.op = "unbind_trigger"
    /\ last.before.trigger # NoTrigger
    /\ NowBound = Unbound /\ bound = EmptyDict

\* C35: sopel_wrapper binds the trigger and the rule or neither: when it
\* raises on entering, the context is as it was before the call.
C35_WrapperBindsBothOrNeither ==
    last.op = "sopel_wrapper" =>
        /\ last.raised => NowBound = last.before
        /\ ~last.raised => ( /\ NowBound.trigger \in BindTriggers
                             /\ NowBound.rule \in BindRules )

\* What holds of the code: sopel_wrapper raises exactly when a trigger or a
\* rule is bound; it leaves the context as it was when a trigger was bound,
\* and leaves its own trigger bound when only a rule was.
C35_WrapperLeavesTrigger ==
    last.op = "sopel_wrapper" =>
        /\ last.raised <=> last.before # Unbound
        /\ (last.raised /\ last.before.trigger # NoTrigger)
              => NowBound = last.before
        /\ (last.raised /\ last.before.trigger = NoTrigger)
              => ( /\ NowBound.trigger \in BindTriggers
                   /\ NowBound.rule = last.before.rule
                   /\ "wrapper" \notin last.tokens )

\* sopel_wrapper raised on a bot bound to a rule and to no trigger: its
\* trigger is bound now and nobody holds a token for it.
C35_Witness ==
    /\ last.op = "sopel_wrapper" /\ last.raised
    /\ last.before.trigger = NoTrigger /\ last.before.rule = "greet"
    /\ NowBound.trigger = TriggerOf("Foo", "#chan")
    /\ "trigger" \notin last.tokens

----------------------------------------------------------------------------
(* Claims on what a refused or a failed call leaves in the ledger *)

\* The uses on record in Sopel._times: key, function and time.
Stamps(tm) ==
    UNION { { <<k, func, tm[k][func]>> : func \in DOMAIN tm[k] } : k \in DOMAIN tm }

RefusedDecisions == RateLimitedDecisions \cup {"disabled"}

\* C36: a call of call_rule or of call that is refused by a rate limit or by
\* the channel section records no use: the ledger of the rule is as it was
\* for every user, channel and the global key, no query answers differently
\* after it, and call leaves every time in Sopel._times as it was and adds
\* none.
C36_RefusedRecordsNothing ==
    [][ /\ ( /\ last'.op = "call_rule"
             /\ last'.decision \in RefusedDecisions )
           => /\ metrics' = metrics
              /\ last'.outcome = "none"
        /\ ( /\ last'.op = "call"
             /\ last'.decision \in RefusedDecisions )
           => /\ Stamps(times') = Stamps(times)
              /\ last'.outcome = "none"
              /\ \A nick \in CallNicks, t \in 0..MaxCallTime :
                   \A sender \in CallSenders(nick) :
                     FindsLimited(rules[TheRule], times', nick, sender, t)
                       = FindsLimited(rules[TheRule], times, nick, sender, t)
      ]_vars

\* The same for the blocklist (Spec): a dispatch that drops a rule of a
\* blocked sender, and a call_rule that returns before the handler, leave the
\* ledger of every rule as it was.
C36_BlockedRecordsNothing ==
    [][ ( \/ <<DispatchSuppress>>_vars
          \/ \E e \in 1..Len(execs) : <<CallRuleSkip(e)>>_vars )
        => metrics' = metrics ]_vars

\* call_rule refused a user for the user limit: the use on record is the
\* earlier one and no other key has one more.
C36_Witness ==
    /\ last.op = "call_rule"
    /\ last.decision = "user_limited"
    /\ last.nick = "Foo"
    /\ last.sender = "#chan"
    /\ DOMAIN metrics[TheRule].user = {"Foo"}
    /\ is_user_rate_limited(rules[TheRule], metrics[TheRule], "Foo", now)

\* call refused a user it had never seen, in a channel where the plugin is
\* disabled: Sopel._times has the empty dicts and no time.
C36_WitnessDisabled ==
    /\ last.op = "call"
    /\ last.decision = "disabled"
    /\ DOMAIN times = {last.nick, BotNick, "#chan"}
    /\ Stamps(times) = {}

\* call refused a user for the channel limit.
C36_WitnessLegacyLimited ==
    /\ last.op = "call"
    /\ last.decision = "channel_limited"
    /\ Stamps(times) # {}

\* C37: a call whose handler raised leaves the ledger as it was for every
\* key: the ledger of the rule after call_rule and Rule.execute, the times in
\* Sopel._times after call.
C37_RaisedLeavesLedger ==
    [][ /\ ( /\ last'.op \in {"call_rule", "execute"}
             /\ last'.outcome \in Raises )
           => metrics' = metrics
        /\ ( /\ last'.op = "call"
             /\ last'.outcome \in Raises )
           => Stamps(times') = Stamps(times)
      ]_vars

\* What holds of the code: call_rule and Rule.execute leave the ledger as it
\* was when the handler raised; call does when the exception is no Exception
\* (KeyboardInterrupt, SystemExit), and records the time it began, for the
\* nick, the bot's nick and the channel, when the handler raised an Exception.
C37_LegacyRecordsRaised ==
    [][ /\ ( /\ last'.op \in {"call_rule", "execute"}
             /\ last'.outcome \in Raises )
           => metrics' = metrics
        /\ ( /\ last'.op = "call"
             /\ last'.outcome \in {"kbd", "exit"} )
           => Stamps(times') = Stamps(times)
        /\ ( /\ last'.op = "call"
             /\ last'.outcome = "error" )
           => /\ times'[last'.nick][TheRule] = now
              /\ times'[BotNick][TheRule] = now
              /\ ~IsPrivmsg(last'.sender) => times'[last'.sender][TheRule] = now
      ]_vars

\* The handler call ran raised an Exception, and the user is on record for
\* this second: under a rule with a user window the user is limited now.
C37_Witness ==
    /\ last.op = "call"
    /\ last.outcome = "error"
    /\ last.nick = "Foo"
    /\ Stamps(times) = { <<k, TheRule, 0>> : k \in DOMAIN times }
    /\ rules[TheRule].user_rate > 0
    /\ FindsLimited(rules[TheRule], times, "Foo", "Foo", now)

----------------------------------------------------------------------------
(* SpecUnload: plugins added, removed and reloaded, and the bot shut down *)

\* The shutdown functions and the jobs a plugin hands to add_plugin.
Shutdowns(plugin) ==
    CASE plugin = "A" -> <<"sa">>
      [] plugin = "B" -> <<"sb", "sb2">>
      [] OTHER -> <<"sc">>

Jobs(plugin) == IF plugin = "A" THEN {"ja"} ELSE {}

ShutdownNames == {"sa", "sb", "sb2", "sc"}

\* How a shutdown function ends: it returns, raises an Exception, or raises
\* KeyboardInterrupt.
ShutdownOutcomes == {"ok", "error", "kbd"}

\* The last call on the bot, and with it bot.shutdown_methods and the jobs of
\* the scheduler: the name it was called for, whether it raised, the shutdown
\* methods it called in order, those of them that raised an Exception, and
\* the plugin routines it ran.
Unload(op, name, raised, methods, jobs, called, failed, routines) ==
    [op |-> op, name |-> name, raised |-> raised, shutdown_methods |-> methods,
     jobs |-> jobs, called |-> called, failed |-> failed, routines |-> routines]

InitUnload ==
    /\ now = 0
    /\ rules = PluginRules
    /\ config = PluginConfig
    /\ metrics = [r \in DOMAIN PluginRules |-> EmptyMetrics]
    /\ times = EmptyDict
    /\ pc = "idle"
    /\ pretrigger = NoEvent
    /\ triggered = <<>>
    /\ idx = 1
    /\ blocked_rules = {}
    /\ offers = <<>>
    /\ local_running = <<>>
    /\ execs = <<>>
    /\ running = <<>>
    /\ ndispatch = 0
    /\ escaped = "none"
    /\ reported = 0
    /\ uses = [r \in DOMAIN PluginRules |-> EmptyDict]
    /\ last = Unload("none", "None", FALSE, <<>>, {}, <<>>, <<>>, <<>>)
    /\ channels = SpecChannels
    /\ registered = <<>>
    /\ plugins = {}
    /\ pending = <<>>
    /\ bound = EmptyDict
    /\ sent = <<>>

\* What no call of SpecUnload touches.
AllButUnload ==
    <<now, rules, config, metrics, times, pc, pretrigger, triggered, idx,
      blocked_rules, offers, local_running, execs, running, ndispatch,
      escaped, reported, uses, channels, pending, bound, sent>>

\* register_shutdowns: the functions are appended to the list.
register_shutdowns(methods, shutdowns) == methods \o shutdowns

\* unregister_shutdowns: the functions that are not among shutdowns stay, in
\* their order.
unregister_shutdowns(methods, shutdowns) ==
    SelectSeq(methods, LAMBDA m : ~InSeq(m, shutdowns))

\* add_plugin as a whole, for a plugin whose callables all load.
AddPluginWhole(plugin) ==
    /\ ~has_plugin(plugin)
    /\ plugins' = plugins \cup {plugin}
    /\ registered' = registered \o Callables(plugin)
    /\ last' = Unload("add_plugin", plugin, FALSE,
                      register_shutdowns(last.shutdown_methods, Shutdowns(plugin)),
                      last.jobs \cup Jobs(plugin), <<>>, <<>>, <<>>)
    /\ UNCHANGED AllButUnload

\* remove_plugin, called with what the plugin handed to add_plugin.
RemovePluginCall(plugin) ==
    /\ IF ~has_plugin(plugin)
       THEN /\ last' = Unload("remove_plugin", plugin, TRUE,
                              last.shutdown_methods, last.jobs, <<>>, <<>>, <<>>)
            /\ UNCHANGED <<plugins, registered>>
       ELSE /\ registered' = unregister_plugin(registered, plugin)
            /\ plugins' = plugins \ {plugin}
            /\ last' = Unload("remove_plugin", plugin, FALSE,
                              unregister_shutdowns(last.shutdown_methods,
                                                   Shutdowns(plugin)),
                              last.jobs \ Jobs(plugin), <<>>, <<>>, <<>>)
    /\ UNCHANGED AllButUnload

\* The routines of a plugin that can raise during reload_plugin.
ReloadFailures == {"none", "shutdown", "setup"}

\* reload_plugin: the shutdown routine of the plugin, unregister (which calls
\* remove_plugin), reload, the setup routine, register (which calls
\* add_plugin). An exception of a routine leaves reload_plugin there.
ReloadPlugin(plugin, fails) ==
    /\ IF ~has_plugin(plugin)
       THEN /\ last' = Unload("reload_plugin", plugin, TRUE,
                              last.shutdown_methods, last.jobs, <<>>, <<>>, <<>>)
            /\ UNCHANGED <<plugins, registered>>
       ELSE IF fails = "shutdown"
       THEN /\ last' = Unload("reload_plugin", plugin, TRUE,
                              last.shutdown_methods, last.jobs, <<>>, <<>>,
                              <<"shutdown">>)
            /\ UNCHANGED <<plugins, registered>>
       ELSE IF fails = "setup"
       THEN /\ registered' = unregister_plugin(registered, plugin)
            /\ plugins' = plugins \ {plugin}
            /\ last' = Unload("reload_plugin", plugin, TRUE,
                              unregister_shutdowns(last.shutdown_methods,
                                                   Shutdowns(plugin)),
                              last.jobs \ Jobs(plugin), <<>>, <<>>,
                              <<"shutdown", "setup">>)
       ELSE /\ registered' = unregister_plugin(registered, plugin)
                                \o Callables(plugin)
            /\ UNCHANGED plugins
            /\ last' = Unload("reload_plugin", plugin, FALSE,
                              register_shutdowns(
                                  unregister_shutdowns(last.shutdown_methods,
                                                       Shutdowns(plugin)),
                                  Shutdowns(plugin)),
                              last.jobs, <<>>, <<>>, <<"shutdown", "setup">>)
    /\ UNCHANGED AllButUnload

\* Mutant: no exception of a shutdown method is caught.
LeavesLoopOnAny(outcome) == outcome # "ok"

\* except Exception: KeyboardInterrupt is no Exception and leaves the loop.
LeavesLoop(outcome) == outcome = "kbd"

\* The loop of _shutdown over methods, where method m ends as ends[m]: the
\* methods that were called, up to the first that raised what is not caught.
RECURSIVE CalledMethods(_, _)
CalledMethods(methods, ends) ==
    IF methods = <<>> THEN <<>>
    ELSE IF LeavesLoop(ends[Head(methods)]) THEN <<Head(methods)>>
    ELSE <<Head(methods)>> \o CalledMethods(Tail(methods), ends)

\* The loop was left by an exception.
LoopLeft(methods, ends) ==
    \E i \in 1..Len(methods) : LeavesLoop(ends[methods[i]])

\* _shutdown: the scheduler is stopped and its jobs cleared, the shutdown
\* methods are called, and the list is emptied when the loop ended.
Shutdown(ends) ==
    /\ last' = Unload("_shutdown", "None",
                      LoopLeft(last.shutdown_methods, ends),
                      IF LoopLeft(last.shutdown_methods, ends)
                      THEN last.shutdown_methods ELSE <<>>,
                      {},
                      CalledMethods(last.shutdown_methods, ends),
                      SelectSeq(CalledMethods(last.shutdown_methods, ends),
                                LAMBDA m : ends[m] = "error"),
                      <<>>)
    /\ UNCHANGED <<plugins, registered>>
    /\ UNCHANGED AllButUnload

NextUnload ==
    \/ \E plugin \in PluginNames : AddPluginWhole(plugin)
    \/ \E plugin \in PluginNames : RemovePluginCall(plugin)
    \/ \E plugin \in PluginNames, fails \in ReloadFailures :
         ReloadPlugin(plugin, fails)
    \/ \E ends \in [ShutdownNames -> ShutdownOutcomes] : Shutdown(ends)

SpecUnload == InitUnload /\ [][NextUnload]_vars

\* C38: reload_plugin and remove_plugin called for a name that is no
\* registered plugin raise PluginNotRegistered and change nothing: the rules
\* of the manager, the jobs, the shutdown methods and the registered plugins
\* are as they were, and no routine of a plugin and no shutdown method was
\* run.
C38_NotRegisteredChangesNothing ==
    [][ ( /\ last'.op \in {"reload_plugin", "remove_plugin"}
          /\ last'.name \notin plugins )
        => /\ last'.raised
           /\ plugins' = plugins
           /\ registered' = registered
           /\ last'.shutdown_methods = last.shutdown_methods
           /\ last'.jobs = last.jobs
           /\ last'.routines = <<>>
           /\ last'.called = <<>> ]_vars

\* reload_plugin raised for A, which was removed, while B is registered with
\* its rule and its shutdown methods.
C38_Witness ==
    /\ last.op = "reload_plugin"
    /\ last.name = "A"
    /\ last.raised
    /\ plugins = {"B"}
    /\ registered = <<"b1">>
    /\ last.shutdown_methods = <<"sb", "sb2">>
    /\ last.routines = <<>>

\* remove_plugin raised for a plugin that was never added.
C38_WitnessRemove ==
    /\ last.op = "remove_plugin"
    /\ last.name = "C"
    /\ last.raised
    /\ plugins = {"A", "B"}
    /\ last.jobs = {"ja"}

\* C39 as stated: every call of _shutdown calls every registered shutdown
\* method once, in the order of registration, whatever an earlier one raised,
\* and leaves the list empty.
C39_AllCalledListEmptied ==
    [][ last'.op = "_shutdown"
        => /\ last'.called = last.shutdown_methods
           /\ last'.shutdown_methods = <<>> ]_vars

\* C39: a call of _shutdown in which no shutdown method raises anything but
\* an Exception calls every registered shutdown method once, in the order of
\* registration, also after one that raised, and leaves the list empty, so
\* that the next _shutdown calls none; a shutdown method that raises
\* KeyboardInterrupt, which is no Exception, is the last one called, the
\* exception leaves _shutdown and the list is as it was.
C39_AllCalledUnlessInterrupted ==
    [][ last'.op = "_shutdown"
        => /\ ~last'.raised
              => /\ last'.called = last.shutdown_methods
                 /\ last'.shutdown_methods = <<>>
           /\ last'.raised
              => /\ last'.called # <<>>
                 /\ last'.called
                      = SubSeq(last.shutdown_methods, 1, Len(last'.called))
                 /\ ~InSeq(last'.called[Len(last'.called)], last'.failed)
                 /\ last'.shutdown_methods = last.shutdown_methods
           /\ ( /\ last.op = "_shutdown" /\ ~last.raised )
              => last'.called = <<>> ]_vars

\* _shutdown called the three methods in the order of registration although
\* the first and the second raised an Exception; the list is empty.
C39_Witness ==
    /\ last.op = "_shutdown"
    /\ ~last.raised
    /\ last.called = <<"sb", "sb2", "sa">>
    /\ last.failed = <<"sb", "sb2">>
    /\ last.shutdown_methods = <<>>

\* A shutdown method raised KeyboardInterrupt: the later one was not called
\* and the list is as it was.
C39_WitnessInterrupted ==
    /\ last.op = "_shutdown"
    /\ last.raised
    /\ last.called = <<"sb">>
    /\ last.shutdown_methods = <<"sb", "sb2", "sa">>

----------------------------------------------------------------------------
(* SpecCap: capability requests resumed after request_capabilities *)

\* The capability requests of the plugins.
CapRequests == {"sasl", "away-notify", "account-tag", "echo-message"}

\* A request that was made is pending, until its handler or a resume is done
\* with it.
CapStates == {"pending", "done"}

\* self.write(('CAP', 'END'))
CapEnd == Line("CAP", "END", <<>>)

\* The negotiation is complete when no request that was made is pending.
is_complete(requested) ==
    \A req \in DOMAIN requested : requested[req] = "done"

\* Manager.resume: the request is done; the answer is whether the negotiation
\* was complete before and whether it is now.
resume(requested, cap_req) ==
    [was_completed |-> is_complete(requested),
     is_complete |-> is_complete([requested EXCEPT ![cap_req] = "done"]),
     requested |-> [requested EXCEPT ![cap_req] = "done"]]

\* Mutant: CAP END is sent whenever the negotiation is complete.
SendsCapEndWhenComplete(was_completed, now_complete) == now_complete

\* if not was_completed and is_complete
SendsCapEnd(was_completed, now_complete) == ~was_completed /\ now_complete

\* The last call, and with it the requests the manager made.
CapCall(op, cap_req, requested) ==
    [op |-> op, cap_req |-> cap_req, requested |-> requested]

\* After request_capabilities: some requests were made, and the handlers of
\* some of them are done with them.
InitCap ==
    /\ now = 0
    /\ rules = Registry
    /\ config = EmptyDict
    /\ metrics = [r \in DOMAIN Registry |-> EmptyMetrics]
    /\ times = EmptyDict
    /\ pc = "idle"
    /\ pretrigger = NoEvent
    /\ triggered = <<>>
    /\ idx = 1
    /\ blocked_rules = {}
    /\ offers = <<>>
    /\ local_running = <<>>
    /\ execs = <<>>
    /\ running = <<>>
    /\ ndispatch = 0
    /\ escaped = "none"
    /\ reported = 0
    /\ uses = [r \in DOMAIN Registry |-> EmptyDict]
    /\ \E made \in SUBSET CapRequests :
         \E requested \in [made -> CapStates] :
            last = CapCall("none", "None", requested)
    /\ channels = SpecChannels
    /\ registered = RegistryOrder
    /\ plugins = {"testplugin", "coretasks"}
    /\ pending = <<>>
    /\ bound = EmptyDict
    /\ sent = <<>>

\* resume_capability_negotiation for a request that was made.
ResumeCapabilityNegotiation(cap_req) ==
    /\ cap_req \in DOMAIN last.requested
    /\ LET res == resume(last.requested, cap_req)
       IN /\ last' = CapCall("resume", cap_req, res.requested)
          /\ sent' = IF SendsCapEnd(res.was_completed, res.is_complete)
                     THEN Append(sent, CapEnd)
                     ELSE sent
    /\ UNCHANGED bound
    /\ UNCHANGED AllButSending

NextCap ==
    \E cap_req \in CapRequests : ResumeCapabilityNegotiation(cap_req)

SpecCap == InitCap /\ [][NextCap]_vars

C40_WitnessPending ==
    /\ last.op = "resume"
    /\ DOMAIN last.requested = {"sasl", "away-notify"}
    /\ last.requested["sasl"] = "done"
    /\ last.requested["away-notify"] = "pending"
    /\ sent = <<>>

====
